---- MODULE Spec2Model ----
(***************************************************************************)
(* RecordKeeper: bet parsing (bot.py), the closing-line cache and its      *)
(* reconciliation (bot.py, clv.py, odds_api.py) and the CLV scheduler      *)
(* (clv.py), as state machines over the database tables of models.py; and  *)
(* the recap cogs (cogs/recap.py, cogs/admin.py, cogs/reports.py) over the *)
(* tables of db.py.                                                        *)
(*                                                                         *)
(* Text is a sequence of characters (one-character strings); an emoji is   *)
(* one character, written "E_CHECK", "E_CROSS", "E_HOOK", "E_BALL".         *)
(* Decimal numbers are integers in tenths (3.5 is 35); the inputs carry at *)
(* most one fractional digit.  An optional value (Python None, SQL NULL)   *)
(* is <<>> and a present value v is <<v>>.                                 *)
(***************************************************************************)
EXTENDS Integers, Sequences, FiniteSets, TLC

(* ---------------------------------------------------------------------- *)
(* Characters and strings                                                 *)
(* ---------------------------------------------------------------------- *)
None == <<>>
Some(v) == <<v>>
IsNone(o) == o = <<>>
Val(o) == o[1]

LowerLetters == {"a","b","c","d","e","f","g","h","i","j","k","l","m","n","o","p","q","r","s","t","u","v","w","x","y","z"}
UpperLetters == {"A","B","C","D","E","F","G","H","I","J","K","L","M","N","O","P","Q","R","S","T","U","V","W","X","Y","Z"}
Digits == {"0","1","2","3","4","5","6","7","8","9"}

\* str.lower() on one character
LowerMap == ("A" :> "a") @@ ("B" :> "b") @@ ("C" :> "c") @@ ("D" :> "d") @@ ("E" :> "e") @@ ("F" :> "f") @@ ("G" :> "g") @@ ("H" :> "h") @@ ("I" :> "i") @@ ("J" :> "j") @@ ("K" :> "k") @@ ("L" :> "l") @@ ("M" :> "m") @@ ("N" :> "n") @@ ("O" :> "o") @@ ("P" :> "p") @@ ("Q" :> "q") @@ ("R" :> "r") @@ ("S" :> "s") @@ ("T" :> "t") @@ ("U" :> "u") @@ ("V" :> "v") @@ ("W" :> "w") @@ ("X" :> "x") @@ ("Y" :> "y") @@ ("Z" :> "z")
Lower(c) == IF c \in UpperLetters THEN LowerMap[c] ELSE c
DigitMap == ("0" :> 0) @@ ("1" :> 1) @@ ("2" :> 2) @@ ("3" :> 3) @@ ("4" :> 4) @@ ("5" :> 5) @@ ("6" :> 6) @@ ("7" :> 7) @@ ("8" :> 8) @@ ("9" :> 9)

\* unicodedata.name(e, "") for the characters with the Emoji property that the inputs use
EmojiName ==
    ("E_CHECK" :> <<"W","H","I","T","E"," ","H","E","A","V","Y"," ","C","H","E","C","K"," ","M","A","R","K">>)
    @@ ("E_CROSS" :> <<"C","R","O","S","S"," ","M","A","R","K">>)
    @@ ("E_HOOK" :> <<"H","O","O","K">>)
    @@ ("E_BALL" :> <<"B","A","S","K","E","T","B","A","L","L"," ","A","N","D"," ","H","O","O","P">>)
    @@ ("0" :> <<"D","I","G","I","T"," ","Z","E","R","O">>)
    @@ ("1" :> <<"D","I","G","I","T"," ","O","N","E">>)
    @@ ("2" :> <<"D","I","G","I","T"," ","T","W","O">>)
    @@ ("3" :> <<"D","I","G","I","T"," ","T","H","R","E","E">>)
    @@ ("4" :> <<"D","I","G","I","T"," ","F","O","U","R">>)
    @@ ("5" :> <<"D","I","G","I","T"," ","F","I","V","E">>)
    @@ ("6" :> <<"D","I","G","I","T"," ","S","I","X">>)
    @@ ("7" :> <<"D","I","G","I","T"," ","S","E","V","E","N">>)
    @@ ("8" :> <<"D","I","G","I","T"," ","E","I","G","H","T">>)
    @@ ("9" :> <<"D","I","G","I","T"," ","N","I","N","E">>)

IsDigit(c) == c \in Digits
IsAlpha(c) == c \in LowerLetters \cup UpperLetters
\* \w of the re module
IsWordChar(c) == IsAlpha(c) \/ IsDigit(c) \/ c = "_"
\* \s of the re module (the inputs hold no other white space than the blank)
IsSpace(c) == c = " "
\* \p{Emoji}: the emoji, and also the digits, # and *
IsEmoji(c) == c \in DOMAIN EmojiName

LowerStr(s) == [i \in 1..Len(s) |-> Lower(s[i])]

\* sub in s
Contains(s, sub) ==
    \E i \in 1..(Len(s) - Len(sub) + 1) : SubSeq(s, i, i + Len(sub) - 1) = sub

\* s[i:] starts with sub
StartsAt(s, i, sub) ==
    /\ i + Len(sub) - 1 <= Len(s)
    /\ SubSeq(s, i, i + Len(sub) - 1) = sub

Min(S) == CHOOSE x \in S : \A y \in S : x <= y
Max(S) == CHOOSE x \in S : \A y \in S : x >= y

\* str.strip()
Strip(s) ==
    LET keep == {i \in 1..Len(s) : ~IsSpace(s[i])}
    IN  IF keep = {} THEN <<>> ELSE SubSeq(s, Min(keep), Max(keep))

\* s[:n]
Take(s, n) == SubSeq(s, 1, IF Len(s) < n THEN Len(s) ELSE n)

\* last index of the run of digits that starts at i (i - 1 when s[i] is no digit)
DigitsEnd(s, i) ==
    LET stop == {j \in i..(Len(s) + 1) : j = Len(s) + 1 \/ ~IsDigit(s[j])}
    IN  Min(stop) - 1

\* the ends j for which s[i..j] matches \d+(\.\d+)?
NumberEnds(s, i) ==
    LET d == DigitsEnd(s, i)
    IN  IF d < i THEN {}
        ELSE (i..d) \cup
             (IF d + 2 <= Len(s) /\ s[d + 1] = "." /\ IsDigit(s[d + 2])
              THEN (d + 2)..DigitsEnd(s, d + 2) ELSE {})

\* int() of a run of digits
RECURSIVE DigitsVal(_)
DigitsVal(s) ==
    IF s = <<>> THEN 0
    ELSE 10 * DigitsVal(SubSeq(s, 1, Len(s) - 1)) + DigitMap[s[Len(s)]]

\* float() of digits with an optional fraction and sign, in tenths
UnsignedTenths(s) ==
    LET dots == {i \in 1..Len(s) : s[i] = "."}
    IN  IF dots = {} THEN 10 * DigitsVal(s)
        ELSE LET p == Min(dots)
             IN  10 * DigitsVal(SubSeq(s, 1, p - 1)) + DigitMap[s[p + 1]]
IsFloatText(s) ==
    LET body == IF s # <<>> /\ s[1] \in {"+", "-"} THEN Tail(s) ELSE s
    IN  /\ body # <<>>
        /\ IsDigit(body[1])
        /\ Len(body) \in NumberEnds(body, 1)
ParseFloat(s) ==
    IF s[1] = "-" THEN 0 - UnsignedTenths(Tail(s))
    ELSE IF s[1] = "+" THEN UnsignedTenths(Tail(s))
    ELSE UnsignedTenths(s)

(* ---------------------------------------------------------------------- *)
(* bot.py: outcome classification                                         *)
(* ---------------------------------------------------------------------- *)
WinNames == {<<"C","H","E","C","K">>, <<"G","R","E","E","N">>, <<"S","M","I","L","E">>, <<"P","A","R","T","Y">>, <<"T","R","O","P","H","Y">>, <<"S","T","A","R">>, <<"F","I","R","E">>}
LossNames == {<<"C","R","O","S","S">>, <<"S","K","U","L","L">>, <<"A","N","G","R","Y">>, <<"S","I","C","K">>, <<"C","R","Y">>, <<"V","O","M","I","T">>}
WinWords == {<<"w","i","n">>, <<"c","a","s","h">>, <<"h","i","t">>, <<"w"," ">>}
LossWords == {<<"l","o","s","s">>, <<"m","i","s","s">>, <<"l"," ">>, <<"l","o","s","e">>}
PushWords == {<<"p","u","s","h">>, <<"v","o","i","d">>, <<"c","a","n","c","e","l">>}

extract_emojis(text) == SelectSeq(text, IsEmoji)

classify_emoji(e) ==
    LET name == EmojiName[e]
    IN  IF \E w \in WinNames : Contains(name, w) THEN "win"
        ELSE IF \E w \in LossNames : Contains(name, w) THEN "loss"
        ELSE IF e = "E_HOOK" \/ Contains(name, <<"H","O","O","K">>) THEN "loss"
        ELSE "none"

\* a classification that gives a loss the stake without its sign
classify_line_unsigned(line, units) ==
    LET emojis == extract_emojis(line)
        hits == {i \in 1..Len(emojis) : classify_emoji(emojis[i]) # "none"}
        lower == LowerStr(line)
    IN  IF hits # {}
        THEN <<classify_emoji(emojis[Min(hits)]), units>>
        ELSE IF \E w \in WinWords : Contains(lower, w) THEN <<"win", units>>
        ELSE IF \E w \in LossWords : Contains(lower, w) THEN <<"loss", units>>
        ELSE IF \E w \in PushWords : Contains(lower, w) THEN <<"push", 0>>
        ELSE <<"none", 0>>

\* <<status, result>>; status "none" is Python's None
classify_line(line, units) ==
    LET emojis == extract_emojis(line)
        hits == {i \in 1..Len(emojis) : classify_emoji(emojis[i]) # "none"}
        lower == LowerStr(line)
    IN  IF hits # {}
        THEN IF classify_emoji(emojis[Min(hits)]) = "win"
             THEN <<"win", units>> ELSE <<"loss", 0 - units>>
        ELSE IF \E w \in WinWords : Contains(lower, w) THEN <<"win", units>>
        ELSE IF \E w \in LossWords : Contains(lower, w) THEN <<"loss", 0 - units>>
        ELSE IF \E w \in PushWords : Contains(lower, w) THEN <<"push", 0>>
        ELSE <<"none", 0>>

(* ---------------------------------------------------------------------- *)
(* bot.py: sport, bet type and posted line                                *)
(* ---------------------------------------------------------------------- *)
\* SPORT_MAP in its insertion order (the emoji the inputs use, and the keywords)
SPORT_MAP ==
    << <<<<"s","o","c","c","e","r">>, "soccer">>, <<<<"m","l","s">>, "soccer">>, <<<<"u","c","l">>, "soccer">>,
       <<<<"n","f","l">>, "football">>, <<<<"c","f","b">>, "football">>,
       << <<"E_BALL">>, "basketball" >>, <<<<"n","b","a">>, "basketball">>,
       <<<<"w","n","b","a">>, "basketball">>, <<<<"c","b","b">>, "basketball">>,
       <<<<"m","l","b">>, "baseball">>, <<<<"u","f","c">>, "mma">>, <<<<"n","h","l">>, "hockey">> >>

\* an optional sport
extract_sport(text) ==
    LET lower == LowerStr(text)
        hits == {k \in 1..Len(SPORT_MAP) : Contains(lower, SPORT_MAP[k][1])}
    IN  IF hits = {} THEN None ELSE Some(SPORT_MAP[Min(hits)][2])

StatWords == {<<"p","t","s">>, <<"p","o","i","n","t","s">>, <<"r","e","b">>, <<"r","e","b","o","u","n","d","s">>, <<"a","s","t">>, <<"a","s","s","i","s","t","s">>, <<"s","o","g">>,
              <<"s","h","o","t","s">>, <<"y","a","r","d","s">>, <<"y","d","s">>, <<"g","a">>, <<"s","a","v","e","s">>}

\* \b(word)\b matches somewhere in s
HasWord(s, w) ==
    \E i \in 1..(Len(s) - Len(w) + 1) :
        /\ SubSeq(s, i, i + Len(w) - 1) = w
        /\ (i = 1 \/ ~IsWordChar(s[i - 1]))
        /\ (i + Len(w) > Len(s) \/ ~IsWordChar(s[i + Len(w)]))

\* first index at or after i that is no white space
SkipSpaces(s, i) ==
    Min({j \in i..(Len(s) + 1) : j = Len(s) + 1 \/ ~IsSpace(s[j])})

OverUnderWords == <<<<"o","v","e","r">>, <<"u","n","d","e","r">>, <<"o","/","u">>>>

\* (over|under|o/u)\s*([0-9]+(?:\.[0-9]+)?) at i: the word, and where the number is
TotalAt(s, i) ==
    LET ws == {k \in 1..3 : StartsAt(s, i, OverUnderWords[k])}
    IN  IF ws = {} THEN None
        ELSE LET w == OverUnderWords[Min(ws)]
                 n == SkipSpaces(s, i + Len(w))
                 ends == IF n > Len(s) THEN {} ELSE NumberEnds(s, n)
             IN  IF ends = {} THEN None
                 ELSE Some([word |-> w, num |-> SubSeq(s, n, Max(ends))])

\* ([+-]\d+(?:\.\d+)?)\b with the sign at q, preceded by the start or by a non-digit
SpreadAt(s, q) ==
    IF ~(s[q] \in {"+", "-"} /\ (q = 1 \/ ~IsDigit(s[q - 1])) /\ q < Len(s))
    THEN None
    ELSE LET ends == {j \in NumberEnds(s, q + 1) :
                         j = Len(s) \/ ~IsWordChar(s[j + 1])}
         IN  IF ends = {} THEN None ELSE Some(SubSeq(s, q, Max(ends)))

\* [+-]\d{lo,} matches somewhere in s
HasSignedDigits(s, lo) ==
    \E i \in 1..Len(s) : s[i] \in {"+", "-"} /\ DigitsEnd(s, i + 1) - i >= lo

\* a detection that forgets the side of a total or prop
detect_total_unsided(text) ==
    LET lower == LowerStr(text)
        totals == {i \in 1..Len(lower) : ~IsNone(TotalAt(lower, i))}
        spreads == {q \in 1..Len(text) : ~IsNone(SpreadAt(text, q))}
    IN  IF totals # {}
        THEN [bet_type |-> IF \E w \in StatWords : HasWord(lower, w) THEN "prop" ELSE "total",
              posted_line |-> Some(ParseFloat(Val(TotalAt(lower, Min(totals))).num)),
              posted_side |-> None]
        ELSE IF spreads # {}
        THEN LET raw == Val(SpreadAt(text, Min(spreads)))
             IN  [bet_type |-> "spread", posted_line |-> Some(ParseFloat(raw)),
                  posted_side |-> Some(IF raw[1] = "-" THEN "fav" ELSE "dog")]
        ELSE IF Contains(lower, <<"m","l">>) \/ Contains(lower, <<"m","o","n","e","y","l","i","n","e">>) \/ HasSignedDigits(text, 3)
        THEN [bet_type |-> "moneyline", posted_line |-> None, posted_side |-> None]
        ELSE [bet_type |-> "unknown", posted_line |-> None, posted_side |-> None]

\* [bet_type, posted_line, posted_side]
detect_bet_type_and_line(text) ==
    LET lower == LowerStr(text)
        totals == {i \in 1..Len(lower) : ~IsNone(TotalAt(lower, i))}
        spreads == {q \in 1..Len(text) : ~IsNone(SpreadAt(text, q))}
    IN  IF totals # {}
        THEN LET m == Val(TotalAt(lower, Min(totals)))
                 side == IF Contains(m.word, <<"o","v","e","r">>) THEN "over" ELSE "under"
                 line_val == ParseFloat(m.num)
             IN  IF \E w \in StatWords : HasWord(lower, w)
                 THEN [bet_type |-> "prop", posted_line |-> Some(line_val),
                       posted_side |-> Some(side)]
                 ELSE [bet_type |-> "total", posted_line |-> Some(line_val),
                       posted_side |-> Some(side)]
        ELSE IF spreads # {}
        THEN LET raw == Val(SpreadAt(text, Min(spreads)))
             IN  [bet_type |-> "spread", posted_line |-> Some(ParseFloat(raw)),
                  posted_side |-> Some(IF raw[1] = "-" THEN "fav" ELSE "dog")]
        ELSE IF Contains(lower, <<"m","l">>) \/ Contains(lower, <<"m","o","n","e","y","l","i","n","e">>)
        THEN [bet_type |-> "moneyline", posted_line |-> None, posted_side |-> None]
        ELSE IF HasSignedDigits(text, 3)
        THEN [bet_type |-> "moneyline", posted_line |-> None, posted_side |-> None]
        ELSE [bet_type |-> "unknown", posted_line |-> None, posted_side |-> None]

(* ---------------------------------------------------------------------- *)
(* bot.py: parse_bet                                                      *)
(* ---------------------------------------------------------------------- *)
\* (\d+(\.\d+)?)\s*u at i: the ends of the number
UnitEnds(s, i) ==
    {j \in NumberEnds(s, i) :
        LET n == SkipSpaces(s, j + 1) IN n <= Len(s) /\ s[n] = "u"}

\* the stake, in tenths
ParseUnits(line) ==
    LET lower == LowerStr(line)
        starts == {i \in 1..Len(lower) : UnitEnds(lower, i) # {}}
    IN  IF starts = {} THEN 10
        ELSE LET i == Min(starts)
             IN  ParseFloat(SubSeq(lower, i, Max(UnitEnds(lower, i))))

\* ([+-]\d{2,4}): an optional string
ParseOdds(line) ==
    LET starts == {i \in 1..Len(line) :
                      line[i] \in {"+", "-"} /\ DigitsEnd(line, i + 1) - i >= 2}
    IN  IF starts = {} THEN None
        ELSE LET i == Min(starts)
                 n == DigitsEnd(line, i + 1) - i
             IN  Some(SubSeq(line, i, i + (IF n > 4 THEN 4 ELSE n)))

\* an optional record
parse_bet(raw_line) ==
    LET line == Strip(raw_line)
        units == ParseUnits(line)
        t == detect_bet_type_and_line(line)
        c == classify_line(line, units)
    IN  IF line = <<>> THEN None
        ELSE IF c[1] = "none" THEN None
        ELSE Some([units |-> units, odds |-> ParseOdds(line), status |-> c[1],
                   result |-> c[2], sport |-> extract_sport(line),
                   bet_type |-> t.bet_type, posted_line |-> t.posted_line,
                   posted_side |-> t.posted_side])

(* ---------------------------------------------------------------------- *)
(* Dates and event keys                                                   *)
(* ---------------------------------------------------------------------- *)
DigitChars == <<"0", "1", "2", "3", "4", "5", "6", "7", "8", "9">>
TwoDigits(n) == <<DigitChars[(n \div 10) + 1], DigitChars[(n % 10) + 1]>>
FourDigits(n) == TwoDigits(n \div 100) \o TwoDigits(n % 100)

\* a date is <<year, month, day>>; date.isoformat()
IsoFormat(d) == FourDigits(d[1]) \o <<"-">> \o TwoDigits(d[2]) \o <<"-">> \o TwoDigits(d[3])

DaysInMonth(y, m) ==
    IF m \in {4, 6, 9, 11} THEN 30
    ELSE IF m = 2 THEN (IF y % 4 = 0 /\ (y % 100 # 0 \/ y % 400 = 0) THEN 29 ELSE 28)
    ELSE 31
IsValidDate(y, m, d) == m \in 1..12 /\ d \in 1..DaysInMonth(y, m)

\* the texts that str() and an f-string give the values the keys are built from
StrChars ==
    [soccer |-> <<"s","o","c","c","e","r">>, football |-> <<"f","o","o","t","b","a","l","l">>, basketball |-> <<"b","a","s","k","e","t","b","a","l","l">>,
     baseball |-> <<"b","a","s","e","b","a","l","l">>, mma |-> <<"m","m","a">>, hockey |-> <<"h","o","c","k","e","y">>,
     moneyline |-> <<"m","o","n","e","y","l","i","n","e">>, spread |-> <<"s","p","r","e","a","d">>, total |-> <<"t","o","t","a","l">>,
     prop |-> <<"p","r","o","p">>, unknown |-> <<"u","n","k","n","o","w","n">>,
     nba |-> <<"n","b","a">>, nfl |-> <<"n","f","l">>, mlb |-> <<"m","l","b">>, nhl |-> <<"n","h","l">>]

GENERIC_WORDS == {<<"o","v","e","r">>, <<"u","n","d","e","r">>, <<"p","a","r","l","a","y">>, <<"m","o","n","e","y","l","i","n","e">>, <<"m","l">>, <<"s","p","r","e","a","d">>, <<"t","o","t","a","l">>,
                  <<"p","t","s">>, <<"p","o","i","n","t","s">>, <<"r","e","b">>, <<"r","e","b","o","u","n","d","s">>, <<"a","s","t">>, <<"a","s","s","i","s","t","s">>}

\* [A-Za-z&.\- ]
IsNameChar(c) == IsAlpha(c) \/ c \in {"&", ".", "-", " "}

\* re.findall(r"[A-Za-z][A-Za-z&.\- ]{2,}", s) from index i on
RECURSIVE FindNames(_, _)
FindNames(s, i) ==
    IF i > Len(s) THEN <<>>
    ELSE LET stop == Min({j \in (i + 1)..(Len(s) + 1) :
                             j = Len(s) + 1 \/ ~IsNameChar(s[j])})
         IN  IF IsAlpha(s[i]) /\ stop - i >= 3
             THEN <<SubSeq(s, i, stop - 1)>> \o FindNames(s, stop)
             ELSE FindNames(s, i + 1)

\* the order of the characters a cleaned token can hold (their code points)
CodeOrder == <<" ", "&", "-", ".">> \o
    <<"a","b","c","d","e","f","g","h","i","j","k","l","m",
      "n","o","p","q","r","s","t","u","v","w","x","y","z">>
Ord(c) == CHOOSE k \in 1..Len(CodeOrder) : CodeOrder[k] = c

\* a < b for str
StrLess(a, b) ==
    \E k \in 1..(Len(a) + 1) :
        /\ k <= Len(b)
        /\ SubSeq(a, 1, k - 1) = SubSeq(b, 1, k - 1)
        /\ (k = Len(a) + 1 \/ Ord(a[k]) < Ord(b[k]))

\* sorted(set) of strings
RECURSIVE SortStrs(_)
SortStrs(set) ==
    IF set = {} THEN <<>>
    ELSE LET m == CHOOSE x \in set : \A y \in set \ {x} : StrLess(x, y)
         IN  <<m>> \o SortStrs(set \ {m})

\* sep.join(seq)
RECURSIVE Join(_, _)
Join(parts, sep) ==
    IF parts = <<>> THEN <<>>
    ELSE IF Len(parts) = 1 THEN parts[1]
    ELSE parts[1] \o sep \o Join(Tail(parts), sep)

TeamsKeyMax == 180

extract_teams_key(bet_text) ==
    LET tokens == FindNames(bet_text, 1)
        cleaned == {LowerStr(Strip(tokens[k])) : k \in 1..Len(tokens)}
        teams == {t \in cleaned : Len(t) > 2 /\ t \notin GENERIC_WORDS}
        key == Take(Join(SortStrs(teams), <<"|">>), TeamsKeyMax)
    IN  IF key = <<>> THEN <<"u","n","k","n","o","w","n">> ELSE key

\* sport is optional
build_event_key(bet_text, sport, date, bet_type) ==
    (IF IsNone(sport) THEN <<"u","n","k","n","o","w","n">> ELSE StrChars[Val(sport)]) \o <<"|">>
    \o IsoFormat(date) \o <<"|">> \o StrChars[bet_type] \o <<"|">>
    \o extract_teams_key(bet_text)

BetTextMax == 50

\* the key that clv.py builds: f"{sport}|{date.isoformat()}|{bet_type}|{bet_text[:50]}"
clv_event_key(bet_text, sport, date, bet_type) ==
    (IF IsNone(sport) THEN <<"N","o","n","e">> ELSE StrChars[Val(sport)]) \o <<"|">>
    \o IsoFormat(date) \o <<"|">> \o StrChars[bet_type] \o <<"|">>
    \o Take(bet_text, BetTextMax)

\* str.split("|")
RECURSIVE Split(_)
Split(s) ==
    LET bars == {i \in 1..Len(s) : s[i] = "|"}
    IN  IF bars = {} THEN <<s>>
        ELSE <<SubSeq(s, 1, Min(bars) - 1)>> \o Split(SubSeq(s, Min(bars) + 1, Len(s)))

\* the participant tokens of an event key: what follows sport|date|bet_type|
KeyTokens(key) ==
    LET parts == Split(key)
    IN  {parts[k] : k \in 4..Len(parts)}

\* the overlap score of two event keys
Overlap(key1, key2) == Cardinality(KeyTokens(key1) \cap KeyTokens(key2))

\* re.search(r"(\d{1,2})/(\d{1,2})", text), then datetime.date(year, month, day):
\* an optional date
extract_date_from_text(text, year) ==
    LET ok(i) == /\ IsDigit(text[i])
                 /\ \E n \in 1..2 : /\ DigitsEnd(text, i) - i + 1 >= n
                                    /\ i + n + 1 <= Len(text)
                                    /\ text[i + n] = "/"
                                    /\ IsDigit(text[i + n + 1])
        starts == {i \in 1..Len(text) : ok(i)}
    IN  IF starts = {} THEN None
        ELSE LET i == Min(starts)
                 n == Max({k \in 1..2 : /\ DigitsEnd(text, i) - i + 1 >= k
                                        /\ i + k + 1 <= Len(text)
                                        /\ text[i + k] = "/"
                                        /\ IsDigit(text[i + k + 1])})
                 dlen == IF DigitsEnd(text, i + n + 1) - (i + n) >= 2 THEN 2 ELSE 1
                 month == DigitsVal(SubSeq(text, i, i + n - 1))
                 day == DigitsVal(SubSeq(text, i + n + 1, i + n + dlen))
             IN  IF IsValidDate(year, month, day) THEN Some(<<year, month, day>>)
                 ELSE None

(* ---------------------------------------------------------------------- *)
(* Bounds and inputs                                                      *)
(* ---------------------------------------------------------------------- *)
NumGuilds == 2
MaxBets == 2
MaxClosings == 2
MaxTickets == 2
MaxHistory == 2
MaxCsvRows == 1
MaxFeedRows == 1

Guilds == 1..NumGuilds
\* the channels of a guild that recap messages are written in
ChannelIds == {1}

\* the day the messages are written, and the day an administrator may set
Today == <<2025, 1, 7>>
OtherDay == <<2025, 1, 8>>

\* lines of recap messages
LineSpreadWin == <<"N","B","A"," ","L","a","k","e","r","s"," ","-","3",".","5"," ","w","i","n">>
LineSportOnly == <<"N","F","L"," ","C","h","i","e","f","s"," ","-","3",".","5">>
LineNoOutcome == <<"L","a","k","e","r","s"," ","-","3",".","5">>
LineDogLoss == <<"C","e","l","t","i","c","s"," ","+","7"," ","2","u"," ","l","o","s","s">>
LineTotalPush == <<"o","v","e","r"," ","4","5",".","5"," ","p","u","s","h">>
LineMoneyWin == <<"L","a","k","e","r","s"," ","M","L"," ","w","i","n">>
LineNameWin == <<"L","a","k","e","r","s"," ","w","i","n">>
MessageLines == {LineSpreadWin, LineSportOnly, LineNoOutcome, LineDogLoss,
                 LineTotalPush, LineMoneyWin, LineNameWin}
\* those of them that parse_bet takes for a bet
BetLines == {LineSpreadWin, LineSportOnly}

(* ---------------------------------------------------------------------- *)
(* State                                                                  *)
(* ---------------------------------------------------------------------- *)
VARIABLES
    bets,        \* table bets: a set of rows
    nextBetId,   \* the SERIAL of bets.id
    closings,    \* table closings: rows in insertion order, id = index
    settings,    \* table settings: guild -> optional [channel_id, override_date]
    clv_fixes,   \* table clv_fixes: a set of rows
    nextFixId,   \* the SERIAL of clv_fixes.id
    history,     \* guild -> the messages of its recap channel, oldest first
    lastOp,      \* the reconciliation or backfill that ran last: [op, guild, changed, stored]
    updated,     \* the count that the last operation returned or reported
    fills,       \* the UPDATEs of bets of the last reconciliation
    words,       \* parser: the words of the line that is being written
    parsed,      \* parser: <<>>, or <<parse_bet(line)>> once the line is parsed
    detected,    \* parser: <<>>, or what parse_bet had from detect_bet_type_and_line
    now,         \* scheduler: the wall clock, in seconds since Monday 00:00 UTC
    sched,       \* scheduler: [pc, guild, checks, failed, writes]
    closed,      \* scheduler: client.is_closed()
    passes,      \* scheduler: the passes started in the trigger minute
    calcIn,      \* CLV: <<>>, or <<the arguments of a call of calc_clv_for_bet>>
    calcOut,     \* CLV: <<>>, or <<what the call returned>>
    prob,        \* CLV: <<>>, or <<o, american_to_prob(o)>>
    report,      \* CLV: what the last !clv answered
    channel,     \* cogs: the messages of the recap channel, message k has id k
    cog_settings,    \* cogs: table settings of db.py: guild -> optional row
    daily_recaps,    \* cogs: table daily_recaps: the committed rows
    recap_bets,      \* cogs: table bets of db.py: recap id -> its committed rows, in order
    nextRecapId,     \* cogs: the SERIAL of daily_recaps.id
    import_progress, \* cogs: last_message_id of the row of import_progress, or none
    tasks,       \* cogs: the handler and import tasks with their open transactions
    auto,        \* cogs: auto_post_task: [pc, rows, k]
    posts,       \* cogs: guild -> the recap cards that auto_post_task has posted
    ticks        \* cogs: the iterations of auto_post_task that have begun

dbVars == <<bets, nextBetId, closings, settings, clv_fixes, nextFixId, history,
            lastOp, updated, fills>>
parseVars == <<words, parsed, detected>>
schedVars == <<now, sched, closed, passes>>
clvVars == <<calcIn, calcOut, prob, report>>
cogVars == <<channel, cog_settings, daily_recaps, recap_bets, nextRecapId, import_progress,
             tasks>>
autoVars == <<auto, posts, ticks>>
vars == <<dbVars, parseVars, schedVars, clvVars, cogVars, autoVars>>

(* ---------------------------------------------------------------------- *)
(* Tables: settings and the closing-snapshot cache                        *)
(* ---------------------------------------------------------------------- *)
get_channel_id(st, g) == IF IsNone(st[g]) THEN None ELSE Val(st[g]).channel_id
get_override_date(st, g) == IF IsNone(st[g]) THEN None ELSE Val(st[g]).override_date

\* UPDATE settings SET override_date=NULL WHERE guild_id=g
clear_override_date(st, g) ==
    IF IsNone(st[g]) THEN st
    ELSE [st EXCEPT ![g] = Some([Val(st[g]) EXCEPT !.override_date = None])]

\* an insert that replaces the newest row of the same guild and event key
cache_set_closing_upsert(cl, g, event_key, closing_line, closing_odds, source) ==
    LET same == {k \in 1..Len(cl) : cl[k].guild_id = g /\ cl[k].event_key = event_key}
        row == [guild_id |-> g, event_key |-> event_key, closing_line |-> closing_line,
                closing_odds |-> closing_odds, source |-> source,
                fetched_at |-> Len(cl) + 1]
    IN  IF same = {} THEN Append(cl, row)
        ELSE [cl EXCEPT ![Max(same)] = row]

\* INSERT INTO closings ... NOW(): every insert is its own transaction, so a later
\* row has a later fetched_at
cache_set_closing(cl, g, event_key, closing_line, closing_odds, source) ==
    Append(cl, [guild_id |-> g, event_key |-> event_key, closing_line |-> closing_line,
                closing_odds |-> closing_odds, source |-> source,
                fetched_at |-> Len(cl) + 1])

\* odds_api.py: the same insert, with source or "oddsapi"
odds_cache_set_closing(cl, g, event_key, closing_line, closing_odds, source) ==
    Append(cl, [guild_id |-> g, event_key |-> event_key, closing_line |-> closing_line,
                closing_odds |-> closing_odds,
                source |-> IF source = "" THEN "oddsapi" ELSE source,
                fetched_at |-> Len(cl) + 1])

\* a lookup whose WHERE clause has the guild and not the event key
KeyRows_guild_only(cl, g, event_key) ==
    {k \in 1..Len(cl) : cl[k].guild_id = g}

\* the rows of closings for a guild and an event key
KeyRows(cl, g, event_key) ==
    {k \in 1..Len(cl) : cl[k].guild_id = g /\ cl[k].event_key = event_key}

\* bot.py: ... ORDER BY fetched_at DESC LIMIT 1: the rows the query may return
cache_get_closing(cl, g, event_key) ==
    {k \in KeyRows(cl, g, event_key) :
        \A j \in KeyRows(cl, g, event_key) : cl[j].fetched_at <= cl[k].fetched_at}

\* clv.py: the same SELECT with no ORDER BY, then rows[0]: any of the rows
clv_first_row(cl, g, event_key) == KeyRows(cl, g, event_key)

BotKey(b) == build_event_key(b.bet_text, b.sport, b.date, b.bet_type)
ClvKey(b) == clv_event_key(b.bet_text, b.sport, b.date, b.bet_type)

\* a fill that also overwrites the odds the bet was posted at
WithClosingAndOdds(b, row) ==
    [b EXCEPT !.closing_line = row.closing_line, !.closing_odds = row.closing_odds,
              !.odds = row.closing_odds]

\* UPDATE bets SET closing_line=%s, closing_odds=%s WHERE id=%s
WithClosing(b, row) ==
    [b EXCEPT !.closing_line = row.closing_line, !.closing_odds = row.closing_odds]

\* bot.py try_update_bet_with_cached_closing: the rows that make it UPDATE bet b
CachedFillRows(cl, b) ==
    {k \in cache_get_closing(cl, b.guild_id, BotKey(b)) :
        ~IsNone(cl[k].closing_line) \/ ~IsNone(cl[k].closing_odds)}

\* clv.py try_update_bet_with_closing: the rows that make it UPDATE bet b
ClvFillRows(cl, b) == clv_first_row(cl, b.guild_id, ClvKey(b))

(* ---------------------------------------------------------------------- *)
(* bot.py: on_message                                                     *)
(* ---------------------------------------------------------------------- *)
NoOp == [op |-> "none", guild |-> 0, changed |-> FALSE, stored |-> 0]
\* an operation that is no reconciliation and no backfill
Quiet == lastOp' = NoOp /\ updated' = 0 /\ fills' = {}

\* message.content of a message with these lines
Content(lines) == Join(lines, <<"NL">>)

NewBet(id, raw_line, p, date, g) ==
    [id |-> id, bet_text |-> Strip(raw_line), units |-> p.units, odds |-> p.odds,
     status |-> p.status, result |-> p.result, date |-> date, guild_id |-> g,
     sport |-> p.sport, bet_type |-> p.bet_type, posted_line |-> p.posted_line,
     posted_side |-> p.posted_side, closing_line |-> None, closing_odds |-> None]

\* parse_bet(line) for the lines of the recap messages
ParsedLine == [l \in MessageLines |-> parse_bet(l)]

\* the loop over message.content.splitlines() with log_bet: <<bets, next id>>
RECURSIVE LogLines(_, _, _, _, _)
LogLines(lines, date, g, bs, next) ==
    IF lines = <<>> THEN <<bs, next>>
    ELSE LET p == ParsedLine[Head(lines)]
         IN  IF IsNone(p) THEN LogLines(Tail(lines), date, g, bs, next)
             ELSE LogLines(Tail(lines), date, g,
                           bs \cup {NewBet(next, Head(lines), Val(p), date, g)}, next + 1)

ParsedCount(lines) == Cardinality({k \in 1..Len(lines) : ~IsNone(ParsedLine[lines[k]])})

BetDate(st, g, content, created) ==
    IF ~IsNone(get_override_date(st, g)) THEN Val(get_override_date(st, g))
    ELSE IF ~IsNone(extract_date_from_text(content, created[1]))
    THEN Val(extract_date_from_text(content, created[1]))
    ELSE created

\* !setchannel #channel, by an administrator
SetChannel(g, ch) ==
    /\ settings' = [settings EXCEPT ![g] =
           IF IsNone(settings[g]) THEN Some([channel_id |-> Some(ch), override_date |-> None])
           ELSE Some([Val(settings[g]) EXCEPT !.channel_id = Some(ch)])]
    /\ Quiet
    /\ UNCHANGED <<bets, nextBetId, closings, clv_fixes, nextFixId, history>>

\* a message that is no command, written in channel ch of guild g
PostMessage(g, ch, lines) ==
    LET date == BetDate(settings, g, Content(lines), Today)
        logged == LogLines(lines, date, g, bets, nextBetId)
        inChannel == get_channel_id(settings, g) = Some(ch)
    IN  /\ Len(history[g]) < MaxHistory
        /\ nextBetId + ParsedCount(lines) <= MaxBets + 1
        /\ history' = [history EXCEPT ![g] = Append(@, [lines |-> lines, created |-> Today])]
        /\ IF inChannel
           THEN /\ bets' = logged[1]
                /\ nextBetId' = logged[2]
                /\ settings' = IF ~IsNone(get_override_date(settings, g))
                               THEN clear_override_date(settings, g) ELSE settings
           ELSE UNCHANGED <<bets, nextBetId, settings>>
        /\ Quiet
        /\ UNCHANGED <<closings, clv_fixes, nextFixId>>

\* the loop of !backfill over the lines of one message: <<bets, next id, count>>
RECURSIVE BackfillLines(_, _, _, _, _, _)
BackfillLines(lines, date, g, bs, next, count) ==
    LET dup == \E b \in bs : /\ b.bet_text = Strip(Head(lines))
                             /\ b.date = date
                             /\ b.guild_id = g
        Line(p) ==
            IF IsNone(p) \/ dup
            THEN BackfillLines(Tail(lines), date, g, bs, next, count)
            ELSE BackfillLines(Tail(lines), date, g,
                               bs \cup {NewBet(next, Head(lines), Val(p), date, g)},
                               next + 1, count + 1)
    IN  IF lines = <<>> THEN <<bs, next, count>> ELSE Line(ParsedLine[Head(lines)])

\* the loop of !backfill over channel.history(oldest_first=True)
RECURSIVE BackfillMessages(_, _, _, _, _, _)
BackfillMessages(msgs, st, g, bs, next, count) ==
    LET Rest(r) == BackfillMessages(Tail(msgs), st, g, r[1], r[2], r[3])
        Message(m) ==
            Rest(BackfillLines(m.lines, BetDate(st, g, Content(m.lines), m.created),
                               g, bs, next, count))
    IN  IF msgs = <<>> THEN <<bs, next, count>> ELSE Message(Head(msgs))

\* !backfill, by an administrator
Backfill(g) ==
    LET Logged(r) ==
            /\ r[2] <= MaxBets + 1
            /\ bets' = r[1]
            /\ nextBetId' = r[2]
            /\ settings' = clear_override_date(settings, g)
            /\ updated' = r[3]
            /\ lastOp' = [op |-> "backfill", guild |-> g, changed |-> bets' # bets,
                          stored |-> 0]
            /\ fills' = {}
            /\ UNCHANGED <<closings, clv_fixes, nextFixId, history>>
    IN  /\ ~IsNone(get_channel_id(settings, g))
        /\ Logged(BackfillMessages(history[g], settings, g, bets, nextBetId, 0))

\* !delete YYYY-MM-DD, by an administrator; clv_fixes.bet_id is ON DELETE CASCADE
Delete(g, date) ==
    LET gone == {b \in bets : b.guild_id = g /\ b.date = date}
    IN  /\ bets' = bets \ gone
        /\ clv_fixes' = {t \in clv_fixes : \A b \in gone : t.bet_id # b.id}
        /\ Quiet
        /\ UNCHANGED <<nextBetId, closings, settings, nextFixId, history>>

\* !setdate YYYY-MM-DD, by an administrator: an UPDATE, so only of an existing row
SetDate(g, date) ==
    /\ settings' = IF IsNone(settings[g]) THEN settings
                   ELSE [settings EXCEPT ![g] =
                            Some([Val(settings[g]) EXCEPT !.override_date = Some(date)])]
    /\ Quiet
    /\ UNCHANGED <<bets, nextBetId, closings, clv_fixes, nextFixId, history>>

\* the values an administrator gives !setclv
SetClvValues == {<<"-","5",".","5">>}

\* !setclv <bet_id> <value>, by an administrator: a number sets closing_line, any
\* other text closing_odds
SetClv(g, id, text) ==
    /\ bets' = {IF b.id = id /\ b.guild_id = g
                THEN (IF IsFloatText(text)
                      THEN [b EXCEPT !.closing_line = Some(ParseFloat(text))]
                      ELSE [b EXCEPT !.closing_odds = Some(text)])
                ELSE b : b \in bets}
    /\ Quiet
    /\ UNCHANGED <<nextBetId, closings, settings, clv_fixes, nextFixId, history>>

(* ---------------------------------------------------------------------- *)
(* bot.py: !importclv                                                     *)
(* ---------------------------------------------------------------------- *)
\* datetime.strptime(text, "%Y-%m-%d").date(): an optional date
ParseYmd(text) ==
    LET parts == Split(text)
        dashes == {i \in 1..Len(text) : text[i] = "-"}
        y == SubSeq(text, 1, Min(dashes) - 1)
        m == SubSeq(text, Min(dashes) + 1, Max(dashes) - 1)
        d == SubSeq(text, Max(dashes) + 1, Len(text))
        allDigits(s) == s # <<>> /\ \A i \in 1..Len(s) : IsDigit(s[i])
    IN  IF /\ Cardinality(dashes) = 2
           /\ allDigits(y) /\ Len(y) = 4
           /\ allDigits(m) /\ Len(m) <= 2
           /\ allDigits(d) /\ Len(d) <= 2
           /\ IsValidDate(DigitsVal(y), DigitsVal(m), DigitsVal(d))
        THEN Some(<<DigitsVal(y), DigitsVal(m), DigitsVal(d)>>)
        ELSE None

\* a CSV row is [date, sport, bet_type, teams_key, closing_line, closing_odds, source];
\* the file has every column, and an empty cell is the empty text
CsvRowOk(row) ==
    /\ ~IsNone(ParseYmd(row.date))
    /\ (row.closing_line = <<>> \/ IsFloatText(row.closing_line))

CsvEventKey(row) ==
    LowerStr(IF row.sport = <<>> THEN <<"u","n","k","n","o","w","n">> ELSE row.sport) \o <<"|">>
    \o IsoFormat(Val(ParseYmd(row.date))) \o <<"|">>
    \o LowerStr(IF row.bet_type = <<>> THEN <<"u","n","k","n","o","w","n">> ELSE row.bet_type) \o <<"|">>
    \o (IF row.teams_key = <<>> THEN <<"u","n","k","n","o","w","n">> ELSE row.teams_key)

\* the loop over the rows of the attachment; a row that raises is skipped
RECURSIVE ImportRows(_, _, _)
ImportRows(rows, g, cl) ==
    IF rows = <<>> THEN cl
    ELSE LET row == Head(rows)
         IN  IF ~CsvRowOk(row) THEN ImportRows(Tail(rows), g, cl)
             ELSE ImportRows(Tail(rows), g,
                      cache_set_closing(cl, g, CsvEventKey(row),
                          IF row.closing_line = <<>> THEN None
                          ELSE Some(ParseFloat(row.closing_line)),
                          Some(row.closing_odds),
                          IF row.source = "" THEN "consensus" ELSE row.source))

CsvRow(date, sport, bet_type, teams_key, closing_line, closing_odds) ==
    [date |-> date, sport |-> sport, bet_type |-> bet_type, teams_key |-> teams_key,
     closing_line |-> closing_line, closing_odds |-> closing_odds, source |-> ""]

\* the rows an administrator uploads: closings for the events of the recap lines,
\* keyed the way bot.py keys a bet and the way clv.py keys it, and rows that
\* match nothing or do not parse
ClvKeyedRow == CsvRow(<<"2","0","2","5","-","0","1","-","0","7">>, <<"b","a","s","k","e","t","b","a","l","l">>, <<"s","p","r","e","a","d">>, LineSpreadWin,
                      <<"-","4",".","5">>, <<"-","1","1","5">>)
CsvRows ==
    {CsvRow(<<"2","0","2","5","-","0","1","-","0","7">>, <<"B","a","s","k","e","t","b","a","l","l">>, <<"s","p","r","e","a","d">>, extract_teams_key(LineSpreadWin),
            <<"-","4",".","5">>, <<"-","1","1","0">>),
     ClvKeyedRow,
     CsvRow(<<"2","0","2","5","-","1","-","7">>, <<"b","a","s","k","e","t","b","a","l","l">>, <<"s","p","r","e","a","d">>, LineSpreadWin, <<"-","6",".","5">>, <<>>),
     CsvRow(<<"0","7","/","0","1","/","2","0","2","5">>, <<"b","a","s","k","e","t","b","a","l","l">>, <<"s","p","r","e","a","d">>, <<"l","a","k","e","r","s">>, <<"-","4",".","5">>, <<"-","1","1","0">>)}

SeqsUpTo(S, n) == UNION {[1..k -> S] : k \in 1..n}

\* SELECT ... WHERE closing_line IS NULL AND closing_odds IS NULL
\* ORDER BY date DESC LIMIT 500: the sets of rows the query may return
ImportLimit == 500
DateLeq(d, e) ==
    \/ d[1] < e[1]
    \/ d[1] = e[1] /\ d[2] < e[2]
    \/ d[1] = e[1] /\ d[2] = e[2] /\ d[3] <= e[3]
UnfilledSelections(bs, g) ==
    LET open == {b \in bs : b.guild_id = g /\ IsNone(b.closing_line) /\ IsNone(b.closing_odds)}
    IN  IF Cardinality(open) <= ImportLimit THEN {open}
        ELSE {sel \in SUBSET open :
                /\ Cardinality(sel) = ImportLimit
                /\ \A b \in sel : \A c \in open \ sel : DateLeq(c.date, b.date)}

\* !importclv with an attachment, by an administrator: the rows go to the cache,
\* then the unfilled bets of the guild are filled from it
ImportClv(g, rows) ==
    LET cl == ImportRows(rows, g, closings)
    IN  /\ Len(closings) + Len(rows) <= MaxClosings
        /\ closings' = cl
        /\ \E sel \in UnfilledSelections(bets, g) :
             LET hit == {b \in sel : CachedFillRows(cl, b) # {}}
             IN  \E pick \in [{b.id : b \in hit} -> 1..Len(cl)] :
                   /\ \A b \in hit : pick[b.id] \in CachedFillRows(cl, b)
                   /\ bets' = {IF b \in hit THEN WithClosing(b, cl[pick[b.id]]) ELSE b :
                                  b \in bets}
                   /\ fills' = {[bet |-> b.id, snap |-> pick[b.id], path |-> "bot",
                                  before |-> <<b.closing_line, b.closing_odds>>] : b \in hit}
                   /\ updated' = Cardinality(hit)
        /\ lastOp' = [op |-> "importclv", guild |-> g, changed |-> bets' # bets,
                      stored |-> Len(cl) - Len(closings)]
        /\ UNCHANGED <<nextBetId, settings, clv_fixes, nextFixId, history>>

(* ---------------------------------------------------------------------- *)
(* odds_api.py: fetch_and_store_closings                                  *)
(* ---------------------------------------------------------------------- *)
SPORT_API_MAP == {"nba", "nfl", "mlb", "nhl", "soccer"}

\* one outcome of one market of one bookmaker of one game of the feed's answer
FeedOutcome(home, away, date, mkey, name, point, price, title) ==
    [home |-> home, away |-> away, date |-> date, mkey |-> mkey, name |-> name,
     description |-> <<>>, point |-> point, price |-> price, title |-> title]

FeedEventKey(sport_key, o) ==
    LET head == StrChars[sport_key] \o <<"|">> \o Take(o.date, 10) \o <<"|">>
    IN  IF o.mkey = "spreads"
        THEN head \o <<"s","p","r","e","a","d","|">> \o o.home \o <<"|">> \o o.away
        ELSE IF o.mkey = "totals"
        THEN head \o <<"t","o","t","a","l","|">> \o o.home \o <<"|">> \o o.away \o <<"|">> \o LowerStr(o.name)
        ELSE IF o.mkey = "h2h"
        THEN head \o <<"m","o","n","e","y","l","i","n","e","|">> \o o.home \o <<"|">> \o o.away \o <<"|">> \o o.name
        ELSE head \o <<"p","r","o","p","|">> \o o.description

\* the loops over the answer: one insert, committed, per outcome
RECURSIVE StoreOutcomes(_, _, _, _)
StoreOutcomes(outcomes, g, sport_key, cl) ==
    IF outcomes = <<>> THEN cl
    ELSE LET o == Head(outcomes)
         IN  StoreOutcomes(Tail(outcomes), g, sport_key,
                 odds_cache_set_closing(cl, g, FeedEventKey(sport_key, o),
                                        o.point, o.price, o.title))

\* the closings table after fetch_and_store_closings(g, sport_key) got this answer
fetch_and_store_closings(cl, g, sport_key, outcomes) ==
    IF sport_key \notin SPORT_API_MAP THEN cl
    ELSE StoreOutcomes(outcomes, g, sport_key, cl)

\* what the feed answers: outcomes of the game of the recap lines
FeedOutcomes ==
    {FeedOutcome(<<"L","o","s"," ","A","n","g","e","l","e","s"," ","L","a","k","e","r","s">>, <<"B","o","s","t","o","n"," ","C","e","l","t","i","c","s">>, <<"2","0","2","5","-","0","1","-","0","7","T","0","3",":","0","0",":","0","0","Z">>,
                 "spreads", <<"L","o","s"," ","A","n","g","e","l","e","s"," ","L","a","k","e","r","s">>, Some(-45), Some(<<"-","1","1","0">>), "DraftKings"),
     FeedOutcome(<<"L","o","s"," ","A","n","g","e","l","e","s"," ","L","a","k","e","r","s">>, <<"B","o","s","t","o","n"," ","C","e","l","t","i","c","s">>, <<"2","0","2","5","-","0","1","-","0","7","T","0","3",":","0","0",":","0","0","Z">>,
                 "h2h", <<"B","o","s","t","o","n"," ","C","e","l","t","i","c","s">>, None, Some(<<"1","5","0">>), "")}
FeedAnswers == {<<>>} \cup SeqsUpTo(FeedOutcomes, MaxFeedRows)

\* one call of fetch_and_store_closings that the feed answers
FetchAndStore(g, sport_key, outcomes) ==
    /\ Len(closings) + Len(outcomes) <= MaxClosings
    /\ closings' = fetch_and_store_closings(closings, g, sport_key, outcomes)
    /\ Quiet
    /\ UNCHANGED <<bets, nextBetId, settings, clv_fixes, nextFixId, history>>

(* ---------------------------------------------------------------------- *)
(* clv.py: run_updateclv_for_guild                                        *)
(* ---------------------------------------------------------------------- *)
\* the bets of the guild that try_update_bet_with_closing finds rows for
ClvHits(bs, cl, g) == {b \in bs : b.guild_id = g /\ ClvFillRows(cl, b) # {}}

\* the effect of run_updateclv_for_guild(g) on bets, with what it returns, when
\* table closings is cl
RunUpdateClv(g, cl) ==
    LET hit == ClvHits(bets, cl, g)
    IN  \E pick \in [{b.id : b \in hit} -> 1..Len(cl)] :
          /\ \A b \in hit : pick[b.id] \in ClvFillRows(cl, b)
          /\ bets' = {IF b \in hit THEN WithClosing(b, cl[pick[b.id]]) ELSE b :
                         b \in bets}
          /\ fills' = {[bet |-> b.id, snap |-> pick[b.id], path |-> "clv",
                         before |-> <<b.closing_line, b.closing_odds>>] : b \in hit}
          /\ updated' = Cardinality(hit)

\* one call of run_updateclv_for_guild
UpdateClv(g) ==
    /\ RunUpdateClv(g, closings)
    /\ lastOp' = [op |-> IF lastOp.op \in {"updateclv", "updateclv_again"} /\ lastOp.guild = g
                         THEN "updateclv_again" ELSE "updateclv",
                  guild |-> g, changed |-> bets' # bets,
                  stored |-> 0]
    /\ UNCHANGED <<nextBetId, closings, settings, clv_fixes, nextFixId, history>>

(* ---------------------------------------------------------------------- *)
(* The disambiguation queue over table clv_fixes (models.py declares the  *)
(* table; its operations are those of the design, section 4.5)            *)
(* ---------------------------------------------------------------------- *)
\* an enqueue that does not look for an unresolved ticket of the bet
enqueue_unchecked(fx, id, bet_id, g, candidates) ==
    fx \cup {[id |-> id, bet_id |-> bet_id, guild_id |-> g,
              candidates |-> candidates, resolved |-> FALSE]}

\* enqueue(bet_id, guild, candidates): no-op when the bet has an unresolved ticket
enqueue(fx, id, bet_id, g, candidates) ==
    IF \E t \in fx : t.bet_id = bet_id /\ ~t.resolved THEN fx
    ELSE fx \cup {[id |-> id, bet_id |-> bet_id, guild_id |-> g,
                   candidates |-> candidates, resolved |-> FALSE]}

\* the candidates of a bet: the snapshots of its guild, most recent first, at most 5
Candidates(cl, g) ==
    LET rows == {k \in 1..Len(cl) : cl[k].guild_id = g}
    IN  {k \in rows : Cardinality({j \in rows : j > k}) < 5}

\* reconciliation found candidates and no match for an unfilled bet
Enqueue(g, bet_id) ==
    /\ \E b \in bets : /\ b.id = bet_id /\ b.guild_id = g
                       /\ IsNone(b.closing_line) /\ IsNone(b.closing_odds)
    /\ Candidates(closings, g) # {}
    /\ nextFixId <= MaxTickets
    /\ clv_fixes' = enqueue(clv_fixes, nextFixId, bet_id, g, Candidates(closings, g))
    /\ nextFixId' = IF clv_fixes' = clv_fixes THEN nextFixId ELSE nextFixId + 1
    /\ lastOp' = [op |-> "enqueue", guild |-> g, changed |-> clv_fixes' # clv_fixes,
                 stored |-> 0]
    /\ updated' = 0
    /\ fills' = {}
    /\ UNCHANGED <<bets, nextBetId, closings, settings, history>>

\* resolve(ticket, chosen index): the bet gets the candidate's values and the
\* ticket is marked resolved, in one transaction
ResolveTicket(id, k) ==
    /\ \E t \in clv_fixes :
         /\ t.id = id /\ ~t.resolved /\ k \in t.candidates
         /\ bets' = {IF b.id = t.bet_id THEN WithClosing(b, closings[k]) ELSE b : b \in bets}
         /\ clv_fixes' = (clv_fixes \ {t}) \cup {[t EXCEPT !.resolved = TRUE]}
    /\ Quiet
    /\ UNCHANGED <<nextBetId, closings, settings, nextFixId, history>>

(* ---------------------------------------------------------------------- *)
(* Parsing one line                                                       *)
(* ---------------------------------------------------------------------- *)
MaxWords == 3

\* what the lines are written with
Vocabulary ==
    {<<"L","a","k","e","r","s">>, <<"N","F","L">>, <<"M","L">>, <<"-","3",".","5">>, <<"-","1","1","0">>, <<"2","u">>, <<"w","i","n">>, <<"L">>, <<"p","u","s","h">>,
     <<"E_CHECK">>, <<"E_BALL">>, <<"o","v","e","r">>, <<"4","5",".","5">>, <<>>,
     <<"C","e","l","t","i","c","s">>, <<"u","n","d","e","r">>, <<"p","t","s">>, <<"+","7">>, <<"-","1","0",".","5">>, <<"-","1","5","0","u">>}

LineOf(ws) == Join(ws, <<" ">>)

AddWord(w) ==
    /\ Len(words) < MaxWords
    /\ words' = Append(words, w)
    /\ parsed' = <<>>
    /\ detected' = <<>>

ParseLine ==
    /\ parsed = <<>>
    /\ parsed' = <<parse_bet(LineOf(words))>>
    /\ detected' = IF Strip(LineOf(words)) = <<>> THEN <<>>
                   ELSE <<detect_bet_type_and_line(Strip(LineOf(words)))>>
    /\ UNCHANGED words

NewLine ==
    /\ parsed # <<>>
    /\ words' = <<>>
    /\ parsed' = <<>>
    /\ detected' = <<>>

(* ---------------------------------------------------------------------- *)
(* bot.py: closing line value                                             *)
(* ---------------------------------------------------------------------- *)
\* Python's floats are modelled by exact fractions <<numerator, denominator>> in
\* lowest terms with a positive denominator
RECURSIVE Gcd(_, _)
Gcd(a, b) == IF b = 0 THEN a ELSE Gcd(b, a % b)
Abs(x) == IF x < 0 THEN 0 - x ELSE x
Frac(n, d) ==
    LET g == Gcd(Abs(n), Abs(d))
        s == IF d < 0 THEN 0 - 1 ELSE 1
    IN  <<(s * n) \div g, (s * d) \div g>>
FracSub(p, q) == Frac(p[1] * q[2] - q[1] * p[2], p[2] * q[2])
FracAdd(p, q) == Frac(p[1] * q[2] + q[1] * p[2], p[2] * q[2])
\* a REAL column's value given in tenths
Tenths(t) == Frac(t, 10)

\* int(text) succeeds: an optional sign and digits, white space around them
IsIntText(text) ==
    LET s == Strip(text)
        body == IF s # <<>> /\ s[1] \in {"+", "-"} THEN Tail(s) ELSE s
    IN  body # <<>> /\ \A k \in 1..Len(body) : IsDigit(body[k])
ParseInt(text) ==
    LET s == Strip(text)
    IN  IF s[1] = "-" THEN 0 - DigitsVal(Tail(s))
        ELSE IF s[1] = "+" THEN DigitsVal(Tail(s))
        ELSE DigitsVal(s)

\* a conversion that takes the stake of the odds for the chance
american_to_prob_swapped(odds) ==
    IF ~IsIntText(odds) THEN None
    ELSE LET o == ParseInt(odds)
         IN  IF o > 0 THEN Some(Frac(o, o + 100))
             ELSE Some(Frac(100, (0 - o) + 100))

\* a conversion to the price of a stake of 100
american_to_prob_ratio(odds) ==
    IF ~IsIntText(odds) THEN None
    ELSE LET o == ParseInt(odds)
         IN  IF o > 0 THEN Some(Frac(100, o))
             ELSE Some(Frac(0 - o, 100))

\* an optional fraction
american_to_prob(odds) ==
    IF ~IsIntText(odds) THEN None
    ELSE LET o == ParseInt(odds)
         IN  IF o > 0 THEN Some(Frac(100, o + 100))
             ELSE Some(Frac(0 - o, (0 - o) + 100))

\* the moneyline branch: an optional fraction
ClvMoneyline(posted_odds, closing_odds) ==
    LET p_post == IF ~IsNone(posted_odds) /\ Val(posted_odds) # <<>>
                  THEN american_to_prob(Val(posted_odds)) ELSE None
        p_close == IF ~IsNone(closing_odds) /\ Val(closing_odds) # <<>>
                   THEN american_to_prob(Val(closing_odds)) ELSE None
    IN  IF IsNone(p_post) \/ IsNone(p_close) THEN None
        ELSE Some(FracSub(Val(p_close), Val(p_post)))

\* a spread branch that keeps the signs of the lines
ClvSpreadSigned(posted_line, posted_side, closing_line) ==
    IF IsNone(posted_line) \/ IsNone(closing_line)
       \/ posted_side \notin {Some("fav"), Some("dog")}
    THEN None
    ELSE Some(Tenths(Val(closing_line) - Val(posted_line)))

\* the spread branch
ClvSpread(posted_line, posted_side, closing_line) ==
    IF IsNone(posted_line) \/ IsNone(closing_line)
       \/ posted_side \notin {Some("fav"), Some("dog")}
    THEN None
    ELSE IF posted_side = Some("fav")
    THEN Some(Tenths(Abs(Val(closing_line)) - Abs(Val(posted_line))))
    ELSE Some(Tenths(Abs(Val(closing_line)) - Abs(Val(posted_line))))

\* a total branch that reads the under as it reads the over
ClvTotalOverOnly(posted_line, posted_side, closing_line) ==
    IF IsNone(posted_line) \/ IsNone(closing_line)
       \/ posted_side \notin {Some("over"), Some("under")}
    THEN None
    ELSE Some(Tenths(Val(closing_line) - Val(posted_line)))

\* the branch of total and prop
ClvTotal(posted_line, posted_side, closing_line) ==
    IF IsNone(posted_line) \/ IsNone(closing_line)
       \/ posted_side \notin {Some("over"), Some("under")}
    THEN None
    ELSE LET diff == Val(closing_line) - Val(posted_line)
         IN  IF posted_side = Some("over") THEN Some(Tenths(diff))
             ELSE Some(Tenths(0 - diff))

\* a calculation that takes every side that is not "over" for the under
calc_clv_any_side(b) ==
    IF b.bet_type = "moneyline" THEN ClvMoneyline(b.posted_odds, b.closing_odds)
    ELSE IF b.bet_type = "spread"
    THEN ClvSpread(b.posted_line, b.posted_side, b.closing_line)
    ELSE IF b.bet_type \in {"total", "prop"}
    THEN (IF IsNone(b.posted_line) \/ IsNone(b.closing_line) THEN None
          ELSE IF b.posted_side = Some("over")
          THEN Some(Tenths(Val(b.closing_line) - Val(b.posted_line)))
          ELSE Some(Tenths(Val(b.posted_line) - Val(b.closing_line))))
    ELSE None

\* calc_clv_for_bet(bet_type, posted_line, posted_side, posted_odds, closing_line,
\* closing_odds), the arguments in a record: an optional fraction
calc_clv_for_bet(b) ==
    IF b.bet_type = "moneyline" THEN ClvMoneyline(b.posted_odds, b.closing_odds)
    ELSE IF b.bet_type = "spread"
    THEN ClvSpread(b.posted_line, b.posted_side, b.closing_line)
    ELSE IF b.bet_type \in {"total", "prop"}
    THEN ClvTotal(b.posted_line, b.posted_side, b.closing_line)
    ELSE None

(* ---------------------------------------------------------------------- *)
(* Calls of calc_clv_for_bet and american_to_prob                         *)
(* ---------------------------------------------------------------------- *)
MaxOdds == 250

\* the arguments of the calls: bet types, lines in tenths, sides and odds texts
CalcArgs ==
    [bet_type : {"moneyline", "spread", "total", "prop", "unknown"},
     posted_line : {None, Some(0 - 35), Some(0 - 45), Some(70), Some(80)},
     posted_side : {None, Some("fav"), Some("dog"), Some("over"), Some("under")},
     posted_odds : {None, Some(<<"-","1","5","0">>), Some(<<"-","1","3","0">>), Some(<<"+","1","2","0">>), Some(<<"E","V","E","N">>)},
     closing_line : {None, Some(0 - 35), Some(0 - 45), Some(70), Some(80)},
     closing_odds : {None, Some(<<"-","1","5","0">>), Some(<<"-","1","3","0">>), Some(<<"+","1","2","0">>), Some(<<"E","V","E","N">>)}]

\* str(o)
RECURSIVE NatText(_)
NatText(n) == IF n < 10 THEN <<DigitChars[n + 1]>>
              ELSE NatText(n \div 10) \o <<DigitChars[(n % 10) + 1]>>
IntText(o) == IF o < 0 THEN <<"-">> \o NatText(0 - o) ELSE NatText(o)

\* no !clv has answered
NoReport == [guild |-> 0, kind |-> "none", rows |-> {}, totals |-> [bt \in {} |-> 0],
             overall |-> [sum |-> <<0, 1>>, count |-> 0]]

\* a caller passes arguments; the calls are made one after the other
ChooseBet(b) ==
    /\ calcIn = <<>> /\ prob = <<>>
    /\ calcIn' = <<b>>
    /\ calcOut' = <<>>
    /\ prob' = <<>>
    /\ report' = NoReport

\* the call returns
CalcClv ==
    /\ calcIn # <<>>
    /\ calcOut = <<>>
    /\ calcOut' = <<calc_clv_for_bet(calcIn[1])>>
    /\ UNCHANGED <<calcIn, prob, report>>

\* american_to_prob of the text of an integer
AmericanToProb(o) ==
    /\ calcIn = <<>> /\ prob = <<>>
    /\ prob' = <<o, american_to_prob(IntText(o))>>
    /\ calcIn' = <<>>
    /\ calcOut' = <<>>
    /\ report' = NoReport

\* the caller has taken the value
Return ==
    /\ calcOut # <<>> \/ prob # <<>>
    /\ calcIn' = <<>>
    /\ calcOut' = <<>>
    /\ prob' = <<>>
    /\ UNCHANGED report

\* the arguments that !clv passes for a row of bets
ClvArgs(b) ==
    [bet_type |-> b.bet_type, posted_line |-> b.posted_line, posted_side |-> b.posted_side,
     posted_odds |-> b.odds, closing_line |-> b.closing_line,
     closing_odds |-> b.closing_odds]

\* the rows that !clv selects
ClvRows(bs, g) ==
    {b \in bs : b.guild_id = g /\ (~IsNone(b.closing_line) \/ ~IsNone(b.closing_odds))}

\* the sum of the values of rows
RECURSIVE SumClv(_)
SumClv(rows) ==
    IF rows = {} THEN <<0, 1>>
    ELSE LET b == CHOOSE x \in rows : TRUE
         IN  FracAdd(SumClv(rows \ {b}), Val(calc_clv_for_bet(ClvArgs(b))))

\* totals: bet type -> [sum, count], over the rows that have a value
ClvTotals(rows) ==
    LET valued == {b \in rows : ~IsNone(calc_clv_for_bet(ClvArgs(b)))}
    IN  [bt \in {b.bet_type : b \in valued} |->
            LET of == {b \in valued : b.bet_type = bt}
            IN  [sum |-> SumClv(of), count |-> Cardinality(of)]]

\* the sums and counts of the buckets added up
RECURSIVE Overall(_, _)
Overall(totals, buckets) ==
    IF buckets = {} THEN [sum |-> <<0, 1>>, count |-> 0]
    ELSE LET bt == CHOOSE x \in buckets : TRUE
             rest == Overall(totals, buckets \ {bt})
         IN  [sum |-> FracAdd(rest.sum, totals[bt].sum),
              count |-> rest.count + totals[bt].count]

\* !clv: the rows selected and the sums and counts behind the averages of the
\* answer ("No CLV data available yet." and "No valid CLV calculations yet." are the
\* kinds no_data and no_valid)
ClvReport(g) ==
    LET rows == ClvRows(bets, g)
        totals == ClvTotals(rows)
    IN  /\ report' =
             IF rows = {} THEN [NoReport EXCEPT !.guild = g, !.kind = "no_data"]
             ELSE IF DOMAIN totals = {}
             THEN [NoReport EXCEPT !.guild = g, !.kind = "no_valid", !.rows = rows]
             ELSE [guild |-> g, kind |-> "summary", rows |-> rows, totals |-> totals,
                   overall |-> Overall(totals, DOMAIN totals)]
        /\ calcIn' = <<>>
        /\ calcOut' = <<>>
        /\ prob' = <<>>
        /\ Quiet
        /\ UNCHANGED <<bets, nextBetId, closings, settings, clv_fixes, nextFixId, history>>

(* ---------------------------------------------------------------------- *)
(* cogs/recap.py: the parser of recap messages                            *)
(* ---------------------------------------------------------------------- *)
WIN_EMOJI == "E_CHECK"
LOSS_EMOJI == "E_CROSS"
HOOK_EMOJI == "E_HOOK"
\* the members of SPORT_EMOJIS that are one character of the alphabet used here
SPORT_EMOJIS == {"E_BALL"}

\* LET x == v IN F(x), with v worked out once
Let(v, F(_)) == F(v)

\* c in s, and s.replace(c, ""), for one character c
Has(s, c) == \E i \in 1..Len(s) : s[i] = c
Without(s, c) == SelectSeq(s, LAMBDA x : x # c)

\* the index after the spaces that start at i
SkipBlank(s, i) == Min({j \in i..(Len(s) + 1) : j = Len(s) + 1 \/ ~IsSpace(s[j])})

\* \bword\b with re.IGNORECASE: the places where it matches
WordPlaces(s, w) ==
    {i \in 1..Len(s) :
        /\ StartsAt(LowerStr(s), i, w)
        /\ (i = 1 \/ ~IsWordChar(s[i - 1]))
        /\ (i + Len(w) > Len(s) \/ ~IsWordChar(s[i + Len(w)]))}

\* the end of the match of RE_UNITS that starts at i, or 0: the number is taken
\* whole, since what follows a shorter one is a digit or a point
UnitsEnd(s, i) ==
    IF i > Len(s) \/ ~IsDigit(s[i]) THEN 0
    ELSE Let(SkipBlank(s, Max(NumberEnds(s, i)) + 1), LAMBDA u :
             IF /\ u <= Len(s)
                /\ Lower(s[u]) = "u"
                /\ (u = Len(s) \/ ~IsWordChar(s[u + 1]))
             THEN u ELSE 0)

\* re.sub(pattern, "", s), given for every index the end of the match that
\* starts there, or 0
RECURSIVE CutMatches(_, _, _)
CutMatches(s, i, ends) ==
    IF i > Len(s) THEN <<>>
    ELSE IF ends[i] # 0 THEN CutMatches(s, ends[i] + 1, ends)
    ELSE <<s[i]>> \o CutMatches(s, i + 1, ends)

PushEnd(s, i) == IF i \in WordPlaces(s, <<"p","u","s","h">>) THEN i + 3 ELSE 0

\* the end of the match of RE_ODDS that starts at i, or 0
OddsEnd(s, i) ==
    Let(IF i <= Len(s) /\ s[i] \in {"+", "-"} THEN i + 1 ELSE i, LAMBDA d :
        IF d > Len(s) \/ ~IsDigit(s[d]) THEN 0
        ELSE Let(Min({DigitsEnd(s, d), d + 3}), LAMBDA e :
                 IF e + 2 <= Len(s) /\ s[e + 1] = "/" /\ IsDigit(s[e + 2])
                 THEN Min({DigitsEnd(s, e + 2), e + 5})
                 ELSE e))

find_any_emoji(text) ==
    LET at == {i \in 1..Len(text) : text[i] \in SPORT_EMOJIS}
    IN  IF at = {} THEN None ELSE Some(text[Min(at)])

\* parse_bet_line
parse_bet_line(line) ==
    IF Strip(line) = <<>> THEN None
    ELSE
    Let(Strip(line), LAMBDA o0 :
    Let(IF Has(o0, WIN_EMOJI) THEN Some("win") ELSE None, LAMBDA r1 :
    Let(Without(o0, WIN_EMOJI), LAMBDA o1 :
    Let(IF Has(o1, LOSS_EMOJI) THEN Some("loss") ELSE r1, LAMBDA r2 :
    Let(Without(o1, LOSS_EMOJI), LAMBDA o2 :
    Let(IF Has(o2, HOOK_EMOJI) \/ WordPlaces(o2, <<"h","o","o","k">>) # {}
        THEN Some("hook") ELSE r2, LAMBDA r3 :
    Let(Without(o2, HOOK_EMOJI), LAMBDA o3 :
    Let(WordPlaces(o3, <<"p","u","s","h">>) # {}, LAMBDA push :
    Let(IF push THEN Some("push") ELSE r3, LAMBDA r4 :
    Let(IF push THEN CutMatches(o3, 1, [i \in 1..Len(o3) |-> PushEnd(o3, i)]) ELSE o3,
        LAMBDA o4 :
    Let(find_any_emoji(o4), LAMBDA sport :
    Let(IF IsNone(sport) THEN o4 ELSE Strip(Without(o4, Val(sport))), LAMBDA o5 :
    Let({i \in 1..Len(o5) : UnitsEnd(o5, i) # 0}, LAMBDA us :
    Let(IF us = {} THEN 10
        ELSE UnsignedTenths(SubSeq(o5, Min(us), Max(NumberEnds(o5, Min(us))))),
        LAMBDA units :
    Let(IF us = {} THEN o5
        ELSE Strip(CutMatches(o5, 1, [i \in 1..Len(o5) |-> UnitsEnd(o5, i)])),
        LAMBDA o6 :
    Let({i \in 1..Len(o6) : OddsEnd(o6, i) # 0}, LAMBDA os :
    Let(IF os = {} THEN None ELSE Some(SubSeq(o6, Min(os), OddsEnd(o6, Min(os)))),
        LAMBDA odds :
    Let(IF os = {} THEN Strip(o6)
        ELSE Strip(SubSeq(o6, 1, Min(os) - 1)
                   \o SubSeq(o6, OddsEnd(o6, Min(os)) + 1, Len(o6))),
        LAMBDA o7 :
        Some([units |-> units, sport |-> sport,
              description |-> IF o7 = <<>> THEN None ELSE Some(o7),
              odds |-> odds, result |-> r4])
    ))))))))))))))))))

\* the match of RE_SUMMARY that starts at i: <<date, wins, losses>> with the date
\* as <<month, day, year or none>>, or <<>>; every quantifier is taken whole,
\* since what follows a shorter repetition is a character it could have taken
SummaryAt(s, i) ==
    Let(Min({DigitsEnd(s, i), i + 1}), LAMBDA d1 :
    Let(Min({DigitsEnd(s, d1 + 2), d1 + 3}), LAMBDA d2 :
    Let(/\ d2 + 2 <= Len(s)
        /\ s[d2 + 1] = "/"
        /\ DigitsEnd(s, d2 + 2) >= d2 + 3, LAMBDA hasYear :
    Let(IF hasYear THEN Min({DigitsEnd(s, d2 + 2), d2 + 5}) ELSE d2, LAMBDA d3 :
    Let(SkipBlank(s, d3 + 1), LAMBDA p :
    Let(SkipBlank(s, p + 1), LAMBDA q :
    Let(DigitsEnd(s, q), LAMBDA w :
    Let(SkipBlank(s, w + 1), LAMBDA m :
    Let(SkipBlank(s, m + 1), LAMBDA n :
    Let(DigitsEnd(s, n), LAMBDA l :
        IF /\ i <= Len(s) /\ IsDigit(s[i])
           /\ d1 + 2 <= Len(s) /\ s[d1 + 1] = "/" /\ IsDigit(s[d1 + 2])
           /\ p <= Len(s) /\ s[p] \in {":", "-"}
           /\ q <= Len(s) /\ IsDigit(s[q])
           /\ m <= Len(s) /\ s[m] \in {"-", "E_DASH"}
           /\ n <= Len(s) /\ IsDigit(s[n])
        THEN <<[date |-> <<DigitsVal(SubSeq(s, i, d1)), DigitsVal(SubSeq(s, d1 + 2, d2)),
                           IF hasYear THEN Some(DigitsVal(SubSeq(s, d2 + 2, d3))) ELSE None>>,
                wins |-> DigitsVal(SubSeq(s, q, w)),
                losses |-> DigitsVal(SubSeq(s, n, l))]>>
        ELSE <<>>
    ))))))))))

\* RE_SUMMARY.search(line)
SummaryIn(line) ==
    Let({i \in 1..Len(line) : SummaryAt(line, i) # <<>>}, LAMBDA at :
        IF at = {} THEN <<>> ELSE SummaryAt(line, Min(at)))

\* extract_summary: of the last line that matches, in the year of
\* datetime.utcnow() when it names none; raised when datetime() raises ValueError
extract_summary(lines) ==
    Let({k \in 1..Len(lines) : SummaryIn(lines[k]) # <<>>}, LAMBDA at :
        IF at = {} THEN None
        ELSE
        Let(SummaryIn(lines[Max(at)])[1], LAMBDA s :
        Let(IF IsNone(s.date[3]) THEN Today[1]
            ELSE IF Val(s.date[3]) < 100 THEN Val(s.date[3]) + 2000
            ELSE Val(s.date[3]), LAMBDA yy :
            Some([date |-> <<yy, s.date[1], s.date[2]>>, wins |-> s.wins,
                  losses |-> s.losses,
                  raised |-> ~IsValidDate(yy, s.date[1], s.date[2])]))))

\* l.rstrip()
RStrip(s) ==
    LET keep == {i \in 1..Len(s) : ~IsSpace(s[i])}
    IN  IF keep = {} THEN <<>> ELSE SubSeq(s, 1, Max(keep))

\* the line opens a block, and the line ends the block before it
OpensBlock(line) == Contains(LowerStr(line), <<"p","a","r","l","a","y">>) \/ (line # <<>> /\ line[Len(line)] = ":")
EndsBlock(nxt) ==
    \/ nxt = <<>>
    \/ \E i \in 1..Len(nxt) : UnitsEnd(nxt, i) # 0
    \/ \E i \in 1..Len(nxt) : nxt[i] \in SPORT_EMOJIS
    \/ SummaryIn(nxt) # <<>>
    \/ Contains(LowerStr(nxt), <<"p","a","r","l","a","y">>)

RECURSIVE collapse_parlay_blocks(_)
collapse_parlay_blocks(lines) ==
    IF lines = <<>> THEN <<>>
    ELSE
    Let(Strip(Head(lines)), LAMBDA line :
    Let(Tail(lines), LAMBDA rest :
        IF OpensBlock(line)
        THEN Let(Min({j \in 1..(Len(rest) + 1) :
                        j = Len(rest) + 1 \/ EndsBlock(Strip(rest[j]))}), LAMBDA j :
                 <<Join(<<line>> \o [k \in 1..(j - 1) |-> Strip(rest[k])], <<" ","|"," ">>)>>
                 \o collapse_parlay_blocks(SubSeq(rest, j, Len(rest))))
        ELSE <<line>> \o collapse_parlay_blocks(rest)))

\* parse_message_content, of the lines of message.content.splitlines()
parse_message_content(content) ==
    Let(SelectSeq(content, LAMBDA l : Strip(l) # <<>>), LAMBDA nonblank :
    Let([k \in 1..Len(nonblank) |-> RStrip(nonblank[k])], LAMBDA raw_lines :
        IF raw_lines = <<>>
        THEN [recap_date |-> None, summary_wins |-> None, summary_losses |-> None,
              raised |-> FALSE, bets |-> <<>>]
        ELSE
        Let(extract_summary(raw_lines), LAMBDA summary :
        Let(IF IsNone(summary) THEN raw_lines
            ELSE SubSeq(raw_lines, 1,
                        Min({i \in 1..Len(raw_lines) : SummaryIn(raw_lines[i]) # <<>>}) - 1),
            LAMBDA relevant :
        Let(collapse_parlay_blocks(relevant), LAMBDA lines :
        Let(SelectSeq([k \in 1..Len(lines) |-> parse_bet_line(lines[k])],
                      LAMBDA b : ~IsNone(b)), LAMBDA kept :
        Let([k \in 1..Len(kept) |-> Val(kept[k])], LAMBDA found :
            IF IsNone(summary)
            THEN [recap_date |-> None, summary_wins |-> None, summary_losses |-> None,
                  raised |-> FALSE, bets |-> found]
            ELSE [recap_date |-> Some(Val(summary).date),
                  summary_wins |-> Some(Val(summary).wins),
                  summary_losses |-> Some(Val(summary).losses),
                  raised |-> Val(summary).raised, bets |-> found]
    )))))))

\* the counts of the loop of validate_parsed and of upsert_recap_record
RECURSIVE Tally(_)
Tally(bs) ==
    IF bs = <<>> THEN [wins |-> 0, losses |-> 0, pushes |-> 0, hooks |-> 0, total_units |-> 0]
    ELSE
    Let(Tally(SubSeq(bs, 1, Len(bs) - 1)), LAMBDA t :
    Let(bs[Len(bs)], LAMBDA b :
        IF b.result = Some("win")
        THEN [t EXCEPT !.wins = @ + 1, !.total_units = @ + b.units]
        ELSE IF b.result = Some("loss")
        THEN [t EXCEPT !.losses = @ + 1, !.total_units = @ - b.units]
        ELSE IF b.result = Some("hook")
        THEN [t EXCEPT !.hooks = @ + 1, !.losses = @ + 1, !.total_units = @ - b.units]
        ELSE IF b.result = Some("push")
        THEN [t EXCEPT !.pushes = @ + 1]
        ELSE t))

\* validate_parsed: ok of (ok, reason)
validate_parsed(p) ==
    /\ ~IsNone(p.recap_date)
    /\ p.bets # <<>>
    /\ \A k \in 1..Len(p.bets) : ~IsNone(p.bets[k].result)
    /\ IsNone(p.summary_wins)
       \/ /\ Tally(p.bets).wins = Val(p.summary_wins)
          /\ Tally(p.bets).losses = Val(p.summary_losses)

(* ---------------------------------------------------------------------- *)
(* cogs/recap.py, cogs/admin.py: recap messages of one text channel of    *)
(* one guild, stored in the tables of db.py                               *)
(*                                                                        *)
(* A handler is a task that runs from await to await.  Its transaction    *)
(* (conn.transaction() of asyncpg, PostgreSQL READ COMMITTED) keeps what  *)
(* it wrote to itself until COMMIT; an UPDATE or INSERT of a row that an  *)
(* open transaction has written waits for that transaction to end.  The   *)
(* rows of bets of a recap are written after its daily_recaps row, under  *)
(* the lock of that row, in the same step of the model.                   *)
(* ---------------------------------------------------------------------- *)
MaxMessages == 2
MaxTasks == 2
MaxRecapIds == 3
TaskIds == 1..MaxTasks
\* the guild and the channel of the recaps
RecapGuild == 1
RecapChannel == 1

\* the texts of a recap message, in the order in which its author writes them
RecapWin == <<<<"L","a","k","e","r","s"," ">> \o <<"E_CHECK">>, <<"1","/","7",":"," ","1","-","0">>>>
RecapFull == <<<<"B","u","l","l","s"," ","h","o","o","k">>, <<"H","e","a","t"," ","P","U","S","H">>, <<"C","e","l","t","i","c","s"," ","2","u"," ">> \o <<"E_CROSS">>, <<"1","/","7",":"," ","0","-","2">>>>
RecapMismatch == <<<<"L","a","k","e","r","s"," ">> \o <<"E_CHECK">>, <<"1","/","7",":"," ","0","-","1">>>>
RecapVersions == <<RecapWin, RecapFull, RecapMismatch>>
RecapContents == {RecapVersions[v] : v \in 1..Len(RecapVersions)}
VersionOf(c) == CHOOSE v \in 1..Len(RecapVersions) : RecapVersions[v] = c
RecapParsed == [c \in RecapContents |-> parse_message_content(c)]

IdleTask == [kind |-> "idle", pc |-> "done", resume |-> FALSE, last_id |-> None,
             buffer |-> <<>>, i |-> 0, existing |-> None, rows |-> {}, progress |-> None]

\* the first idle task
IsFree(t) == tasks[t].kind = "idle" /\ \A u \in 1..(t - 1) : tasks[u].kind # "idle"

\* the first message of the buffer from index i on that the loop does not skip
NextKept(buffer, i) ==
    Min({j \in i..(Len(buffer) + 1) :
           \/ j = Len(buffer) + 1
           \/ RecapParsed[buffer[j].content].raised
           \/ validate_parsed(RecapParsed[buffer[j].content])})

\* the task when it turns to message i of its buffer: parse_message_content
\* raises and the transaction is rolled back, or the message is upserted, or the
\* buffer is done and the transaction commits
TurnTo(task, i) ==
    LET j == NextKept(task.buffer, i)
    IN  IF j > Len(task.buffer) THEN [task EXCEPT !.pc = "commit", !.i = j]
        ELSE IF RecapParsed[task.buffer[j].content].raised THEN IdleTask
        ELSE [task EXCEPT !.pc = "select", !.i = j]

\* the task of on_message or on_message_edit for a message, after
\* is_recap_channel and validate_parsed
Handler(kind, id, content) ==
    IF \/ IsNone(cog_settings[RecapGuild])
       \/ Val(cog_settings[RecapGuild]).recap_channel_id # Some(RecapChannel)
       \/ RecapParsed[content].raised
       \/ ~validate_parsed(RecapParsed[content])
    THEN IdleTask
    ELSE [IdleTask EXCEPT !.kind = kind, !.pc = "select", !.i = 1,
                          !.buffer = <<[id |-> id, content |-> content]>>]

\* a member posts a message in the channel: on_message
CogPost(t, content) ==
    /\ Len(channel) < MaxMessages
    /\ IsFree(t)
    /\ channel' = Append(channel, content)
    /\ tasks' = [tasks EXCEPT ![t] = Handler("message", Len(channel) + 1, content)]
    /\ UNCHANGED <<cog_settings, daily_recaps, recap_bets, nextRecapId, import_progress>>

\* a member edits a message of the channel: on_message_edit
CogEdit(t, id, content) ==
    /\ id \in 1..Len(channel)
    /\ VersionOf(channel[id]) < VersionOf(content)
    /\ IsFree(t)
    /\ channel' = [channel EXCEPT ![id] = content]
    /\ tasks' = [tasks EXCEPT ![t] = Handler("edit", id, content)]
    /\ UNCHANGED <<cog_settings, daily_recaps, recap_bets, nextRecapId, import_progress>>

\* /setrecap in the channel: the settings row, then import_history(resume=True)
\* as a task
SetRecap(t) ==
    /\ IsFree(t)
    /\ cog_settings' = [cog_settings EXCEPT ![RecapGuild] =
           IF IsNone(@)
           THEN Some([recap_channel_id |-> Some(RecapChannel), automation_enabled |-> FALSE,
                      automation_channel_id |-> None])
           ELSE Some([Val(@) EXCEPT !.recap_channel_id = Some(RecapChannel)])]
    /\ tasks' = [tasks EXCEPT ![t] = [IdleTask EXCEPT !.kind = "import", !.pc = "history",
                                                      !.resume = TRUE]]
    /\ UNCHANGED <<channel, daily_recaps, recap_bets, nextRecapId, import_progress>>

\* /reimport in the channel: import_history(resume=False) as a task
Reimport(t) ==
    /\ IsFree(t)
    /\ tasks' = [tasks EXCEPT ![t] = [IdleTask EXCEPT !.kind = "import", !.pc = "history"]]
    /\ UNCHANGED <<channel, cog_settings, daily_recaps, recap_bets, nextRecapId,
                   import_progress>>

\* import_history up to its transaction: the checkpoint, channel.fetch_message
\* (last_id), which may raise, and the messages of channel.history after it, which
\* are fewer than batch_size
ImportHistory(t, fetched) ==
    LET task == tasks[t]
        last_id == IF task.resume THEN import_progress ELSE None
        after == IF ~IsNone(last_id) /\ fetched THEN Val(last_id) ELSE 0
        buffer == [k \in 1..(Len(channel) - after) |->
                     [id |-> after + k, content |-> channel[after + k]]]
    IN  /\ task.pc = "history"
        /\ IsNone(last_id) => fetched
        /\ tasks' = [tasks EXCEPT ![t] =
                       IF buffer = <<>> THEN IdleTask
                       ELSE TurnTo([task EXCEPT !.buffer = buffer, !.last_id = last_id], 1)]
        /\ UNCHANGED <<channel, cog_settings, daily_recaps, recap_bets, nextRecapId,
                       import_progress>>

\* upsert_recap_record: SELECT id FROM daily_recaps WHERE message_id = $1, which
\* sees the committed rows and the rows of its own transaction
TxSelect(t) ==
    LET task == tasks[t]
        id == task.buffer[task.i].id
        seen == {r \in daily_recaps : r.message_id = id /\ \A w \in task.rows : w.row.id # r.id}
                \cup {w.row : w \in {x \in task.rows : x.row.message_id = id}}
    IN  /\ task.pc = "select"
        /\ tasks' = [tasks EXCEPT ![t] =
                       [task EXCEPT !.pc = "write",
                                    !.existing = IF seen = {} THEN None
                                                 ELSE Some((CHOOSE r \in seen : TRUE).id)]]
        /\ UNCHANGED <<channel, cog_settings, daily_recaps, recap_bets, nextRecapId,
                       import_progress>>

\* the tasks that t waits for: an UPDATE or INSERT of a daily_recaps row of a
\* message waits for the open transactions that have written a row of that
\* message, and the upsert of import_progress for those that have written it
Blockers(t) ==
    IF tasks[t].pc = "write"
    THEN {u \in TaskIds \ {t} :
            \E w \in tasks[u].rows : w.row.message_id = tasks[t].buffer[tasks[t].i].id}
    ELSE IF tasks[t].pc = "progress"
    THEN {u \in TaskIds \ {t} : ~IsNone(tasks[u].progress)}
    ELSE {}

\* a row whose losses leave out the hooks
RecapRowHooksApart(id, message_id, p) ==
    [id |-> id, guild_id |-> RecapGuild, channel_id |-> RecapChannel,
     message_id |-> message_id, recap_date |-> Val(p.recap_date),
     wins |-> Tally(p.bets).wins, losses |-> Tally(p.bets).losses - Tally(p.bets).hooks,
     pushes |-> Tally(p.bets).pushes, hooks |-> Tally(p.bets).hooks,
     total_units |-> Tally(p.bets).total_units]

\* the row of daily_recaps and the rows of bets that upsert_recap_record writes
RecapRow(id, message_id, p) ==
    [id |-> id, guild_id |-> RecapGuild, channel_id |-> RecapChannel,
     message_id |-> message_id, recap_date |-> Val(p.recap_date),
     wins |-> Tally(p.bets).wins, losses |-> Tally(p.bets).losses,
     pushes |-> Tally(p.bets).pushes, hooks |-> Tally(p.bets).hooks,
     total_units |-> Tally(p.bets).total_units]
\* rows of bets that are kept when the recap is stored again
BetRowsKept(old, p) == old \o p.bets
\* DELETE FROM bets WHERE recap_id = $1, then INSERT INTO bets for every bet
BetRows(old, p) == p.bets

\* upsert_recap_record: UPDATE daily_recaps and DELETE FROM bets, or INSERT INTO
\* daily_recaps, which raises UniqueViolationError when a row of the message has
\* been committed meanwhile; then INSERT INTO bets for every bet
TxWrite(t) ==
    LET task == tasks[t]
        m == task.buffer[task.i]
        p == RecapParsed[m.content]
        mine == {w \in task.rows : w.row.message_id = m.id}
        old == IF mine # {} THEN (CHOOSE w \in mine : TRUE).bets
               ELSE IF IsNone(task.existing) THEN <<>>
               ELSE recap_bets[Val(task.existing)]
    IN  /\ task.pc = "write"
        /\ Blockers(t) = {}
        /\ IF ~IsNone(task.existing)
           THEN /\ tasks' = [tasks EXCEPT ![t] =
                     [task EXCEPT !.pc = "progress",
                                  !.rows = (@ \ mine) \cup
                                      {[row |-> RecapRow(Val(task.existing), m.id, p),
                                        bets |-> BetRows(old, p)]}]]
                /\ UNCHANGED nextRecapId
           ELSE /\ nextRecapId <= MaxRecapIds
                /\ nextRecapId' = nextRecapId + 1
                /\ tasks' = [tasks EXCEPT ![t] =
                     IF \E r \in daily_recaps : r.message_id = m.id THEN IdleTask
                     ELSE [task EXCEPT !.pc = "progress",
                                       !.rows = @ \cup
                                           {[row |-> RecapRow(nextRecapId, m.id, p),
                                             bets |-> BetRows(old, p)]}]]
        /\ UNCHANGED <<channel, cog_settings, daily_recaps, recap_bets, import_progress>>

\* update_import_progress: INSERT ... ON CONFLICT DO UPDATE SET last_message_id,
\* then the next message of the buffer
TxProgress(t) ==
    LET task == tasks[t]
    IN  /\ task.pc = "progress"
        /\ Blockers(t) = {}
        /\ tasks' = [tasks EXCEPT ![t] =
                       TurnTo([task EXCEPT !.progress = Some(task.buffer[task.i].id)],
                              task.i + 1)]
        /\ UNCHANGED <<channel, cog_settings, daily_recaps, recap_bets, nextRecapId,
                       import_progress>>

\* COMMIT at the end of async with conn.transaction()
TxCommit(t) ==
    LET task == tasks[t]
        written == {w.row.id : w \in task.rows}
    IN  /\ task.pc = "commit"
        /\ daily_recaps' = {r \in daily_recaps : r.id \notin written}
                           \cup {w.row : w \in task.rows}
        /\ recap_bets' = [id \in DOMAIN recap_bets \cup written |->
                            IF id \in written
                            THEN (CHOOSE w \in task.rows : w.row.id = id).bets
                            ELSE recap_bets[id]]
        /\ import_progress' = IF IsNone(task.progress) THEN import_progress
                              ELSE task.progress
        /\ tasks' = [tasks EXCEPT ![t] = IdleTask]
        /\ UNCHANGED <<channel, cog_settings, nextRecapId>>

\* t is one of some tasks that wait for each other: the database ends its
\* transaction with DeadlockDetectedError
TxDeadlock(t) ==
    /\ \E S \in SUBSET TaskIds :
         /\ t \in S
         /\ \A u \in S : Blockers(u) # {} /\ Blockers(u) \subseteq S
    /\ tasks' = [tasks EXCEPT ![t] = IdleTask]
    /\ UNCHANGED <<channel, cog_settings, daily_recaps, recap_bets, nextRecapId,
                   import_progress>>

(* ---------------------------------------------------------------------- *)
(* cogs/reports.py: auto_post_task, and /automation of cogs/admin.py      *)
(* ---------------------------------------------------------------------- *)
MaxTicks == 3
AutoIdle == [pc |-> "wait", rows |-> <<>>, k |-> 0]

\* the rows of SELECT guild_id, automation_channel_id FROM settings WHERE
\* automation_enabled = TRUE AND automation_channel_id IS NOT NULL
RECURSIVE AutoRows(_, _)
AutoRows(st, g) ==
    IF g > NumGuilds THEN <<>>
    ELSE (IF /\ ~IsNone(st[g])
             /\ Val(st[g]).automation_enabled
             /\ ~IsNone(Val(st[g]).automation_channel_id)
          THEN <<[guild_id |-> g, automation_channel_id |-> Val(Val(st[g]).automation_channel_id)]>>
          ELSE <<>>) \o AutoRows(st, g + 1)

\* after row k of the loop over the rows
AutoNext(a) ==
    IF a.k < Len(a.rows) THEN [a EXCEPT !.pc = "guild", !.k = a.k + 1] ELSE AutoIdle

\* /automation on #channel and /automation off, by an administrator
Automation(g, action, ch) ==
    /\ cog_settings' = [cog_settings EXCEPT ![g] =
          IF action = "on"
          THEN IF IsNone(@)
               THEN Some([recap_channel_id |-> None, automation_enabled |-> TRUE,
                          automation_channel_id |-> Some(ch)])
               ELSE Some([Val(@) EXCEPT !.automation_enabled = TRUE,
                                        !.automation_channel_id = Some(ch)])
          ELSE IF IsNone(@) THEN @
               ELSE Some([Val(@) EXCEPT !.automation_enabled = FALSE,
                                        !.automation_channel_id = None])]
    /\ UNCHANGED <<channel, daily_recaps, recap_bets, nextRecapId, import_progress, tasks,
                   auto, posts, ticks>>

\* an iteration of tasks.loop(minutes=15.0) begins: the guilds with automation
AutoSelect ==
    /\ auto.pc = "wait"
    /\ ticks < MaxTicks
    /\ ticks' = ticks + 1
    /\ auto' = AutoNext([pc |-> "wait", rows |-> AutoRows(cog_settings, 1), k |-> 0])
    /\ UNCHANGED <<cogVars, posts>>

\* one guild of the loop: the recap of date.today(), and the rows of its chart
AutoGuild ==
    LET g == auto.rows[auto.k].guild_id
    IN  /\ auto.pc = "guild"
        /\ auto' = IF \E r \in daily_recaps : r.guild_id = g /\ r.recap_date = Today
                   THEN [auto EXCEPT !.pc = "send"]
                   ELSE AutoNext(auto)
        /\ UNCHANGED <<cogVars, posts, ticks>>

\* await channel.send(file=...): the card is posted, or send raises and the
\* failure is logged
AutoSend(ok) ==
    LET r == auto.rows[auto.k]
    IN  /\ auto.pc = "send"
        /\ posts' = IF ok THEN [posts EXCEPT ![r.guild_id] = @ + 1] ELSE posts
        /\ auto' = AutoNext(auto)
        /\ UNCHANGED <<cogVars, ticks>>

(* ---------------------------------------------------------------------- *)
(* clv.py: clv_scheduler                                                  *)
(* ---------------------------------------------------------------------- *)
SleepSeconds == 60
\* Tuesday 03:00:00 UTC, in seconds since Monday 00:00:00 UTC
TriggerTime == 97200
MaxLag == 1
MaxChecks == 3

Weekday(t) == (t \div 86400) % 7
Hour(t) == (t \div 3600) % 24
Minute(t) == (t \div 60) % 60
\* now.weekday() in (1,4) and now.hour == 3 and now.minute == 0
IsTrigger(t) == Weekday(t) \in {1, 4} /\ Hour(t) = 3 /\ Minute(t) = 0

SchedSports == <<"nba", "nfl", "mlb", "nhl", "soccer">>
\* a call of the feed returns outcomes, or raise_for_status() raises
FeedReplies == {[error |-> TRUE, outcomes |-> <<>>]}
               \cup {[error |-> FALSE, outcomes |-> a] : a \in FeedAnswers}

\* the sports of one guild whose fetch returns, given the answers to the five calls
FetchedSports(answers) ==
    {k \in 1..Len(SchedSports) : \A j \in 1..k : ~answers[j].error}

\* table closings after the calls for sports 1..n of guild g
RECURSIVE FetchAll(_, _, _, _)
FetchAll(cl, g, answers, n) ==
    IF n = 0 THEN cl
    ELSE fetch_and_store_closings(FetchAll(cl, g, answers, n - 1), g,
                                  SchedSports[n], answers[n].outcomes)

\* after the last guild, or the next guild
Advance(s) ==
    IF s.guild < NumGuilds
    THEN [s EXCEPT !.pc = "guild", !.guild = s.guild + 1, !.writes = 0]
    ELSE [s EXCEPT !.pc = "sleep", !.guild = 0, !.writes = 0]

\* while not client.is_closed(): the check of the clock
SchedCheck ==
    /\ sched.pc = "check"
    /\ IF closed THEN sched' = [sched EXCEPT !.pc = "exited"] /\ UNCHANGED passes
       ELSE IF IsTrigger(now)
       THEN /\ sched' = [sched EXCEPT !.pc = "guild", !.guild = 1, !.writes = 0]
            /\ passes' = passes + 1
       ELSE sched' = [sched EXCEPT !.pc = "sleep"] /\ UNCHANGED passes
    /\ UNCHANGED <<now, closed, dbVars>>

\* one guild of the pass, up to its await: the five fetches, each insert committed
\* as it is made, then run_updateclv_for_guild; a fetch that raises ends the task
SchedGuild(answers) ==
    LET g == sched.guild
        done == FetchedSports(answers)
        n == Cardinality(done)
        cl == FetchAll(closings, g, answers, n)
    IN  /\ sched.pc = "guild"
        /\ Len(cl) <= MaxClosings
        /\ closings' = cl
        /\ IF n < Len(SchedSports)
           THEN /\ sched' = [sched EXCEPT !.pc = "crashed", !.failed = "fetch",
                                          !.writes = Len(cl) - Len(closings)]
                /\ Quiet
                /\ UNCHANGED bets
           ELSE /\ RunUpdateClv(g, cl)
                /\ lastOp' = [op |-> "updateclv", guild |-> g, changed |-> bets' # bets,
                             stored |-> 0]
                /\ LET s == [sched EXCEPT !.writes = Len(cl) - Len(closings) + updated']
                   IN  sched' = IF ~IsNone(get_channel_id(settings, g))
                                THEN [s EXCEPT !.pc = "send"] ELSE Advance(s)
        /\ UNCHANGED <<nextBetId, settings, clv_fixes, nextFixId, history>>
        /\ UNCHANGED <<now, closed, passes>>

\* await channel.send(...): it returns, or raises and ends the task
SchedSend(ok) ==
    /\ sched.pc = "send"
    /\ sched' = IF ok THEN Advance(sched)
                ELSE [sched EXCEPT !.pc = "crashed", !.failed = "send"]
    /\ UNCHANGED <<now, closed, passes, dbVars>>

\* await asyncio.sleep(60): the next check comes 60 s later, and later by what
\* the pass and the event loop took
SchedSleep(lag) ==
    /\ sched.pc = "sleep"
    /\ sched.checks < MaxChecks
    /\ now' = now + SleepSeconds + lag
    /\ sched' = [sched EXCEPT !.pc = "check", !.checks = sched.checks + 1]
    /\ UNCHANGED <<closed, passes, dbVars>>

\* the client is closed
Close ==
    /\ ~closed
    /\ sched.pc \in {"sleep", "send"}
    /\ closed' = TRUE
    /\ UNCHANGED <<now, sched, passes, dbVars>>

(* ---------------------------------------------------------------------- *)
(* Specifications                                                         *)
(* ---------------------------------------------------------------------- *)
MaxMsgLines == 1
\* the sports whose feed is asked for outside the scheduler's pass
FeedSports == {"nba"}

InitDb ==
    /\ bets = {}
    /\ nextBetId = 1
    /\ closings = <<>>
    /\ settings = [g \in Guilds |-> None]
    /\ clv_fixes = {}
    /\ nextFixId = 1
    /\ history = [g \in Guilds |-> <<>>]
    /\ lastOp = NoOp
    /\ updated = 0
    /\ fills = {}
InitParse == words = <<>> /\ parsed = <<>> /\ detected = <<>>
InitClv == calcIn = <<>> /\ calcOut = <<>> /\ prob = <<>> /\ report = NoReport
\* the tables of db.py after _ensure_schema, an empty channel and no task
InitCog ==
    /\ channel = <<>>
    /\ cog_settings = [g \in Guilds |-> None]
    /\ daily_recaps = {}
    /\ recap_bets = <<>>
    /\ nextRecapId = 1
    /\ import_progress = None
    /\ tasks = [t \in TaskIds |-> IdleTask]
    /\ auto = AutoIdle
    /\ posts = [g \in Guilds |-> 0]
    /\ ticks = 0
InitSchedIdle ==
    /\ now = TriggerTime - SleepSeconds
    /\ sched = [pc |-> "check", guild |-> 0, checks |-> 0, failed |-> "none", writes |-> 0]
    /\ closed = FALSE
    /\ passes = 0

Init == InitDb /\ InitParse /\ InitSchedIdle /\ InitClv /\ InitCog

\* every guild has set its recap channel
InitConfigured ==
    /\ bets = {}
    /\ nextBetId = 1
    /\ closings = <<>>
    /\ settings = [g \in Guilds |-> Some([channel_id |-> Some(1), override_date |-> None])]
    /\ clv_fixes = {}
    /\ nextFixId = 1
    /\ history = [g \in Guilds |-> <<>>]
    /\ lastOp = NoOp
    /\ updated = 0
    /\ fills = {}

\* the closing-line cache and its reconciliation: recap messages, !setclv,
\* !importclv, a fetch of the feed and run_updateclv_for_guild
NextDb ==
    \/ \E g \in Guilds, ch \in ChannelIds, lines \in SeqsUpTo(BetLines, MaxMsgLines) :
         PostMessage(g, ch, lines)
    \/ \E g \in Guilds, id \in 1..MaxBets, text \in SetClvValues : SetClv(g, id, text)
    \/ \E g \in Guilds, rows \in SeqsUpTo(CsvRows, MaxCsvRows) : ImportClv(g, rows)
    \/ \E g \in Guilds, s \in FeedSports, a \in FeedAnswers : FetchAndStore(g, s, a)
    \/ \E g \in Guilds : UpdateClv(g)

Next == NextDb /\ UNCHANGED <<parseVars, schedVars, clvVars, cogVars, autoVars>>

InitReady == InitConfigured /\ InitParse /\ InitSchedIdle /\ InitClv /\ InitCog

Spec == InitReady /\ [][Next]_vars

\* the parser alone
NextParse ==
    /\ \/ \E w \in Vocabulary : AddWord(w)
       \/ ParseLine
       \/ NewLine
    /\ UNCHANGED <<dbVars, schedVars, clvVars, cogVars, autoVars>>

SpecParse == Init /\ [][NextParse]_vars

\* the scheduler task alone, started shortly before a trigger, over guilds that
\* have set their channel; guild 1 has logged a bet and imported a closing for it
SchedStarts == {TriggerTime - SleepSeconds, TriggerTime - 1}
InitSched ==
    /\ bets = LogLines(<<LineSpreadWin>>, Today, 1, {}, 1)[1]
    /\ nextBetId = 2
    /\ closings = ImportRows(<<ClvKeyedRow>>, 1, <<>>)
    /\ settings = [g \in Guilds |-> Some([channel_id |-> Some(1), override_date |-> None])]
    /\ clv_fixes = {}
    /\ nextFixId = 1
    /\ history = [g \in Guilds |->
                    IF g = 1 THEN <<[lines |-> <<LineSpreadWin>>, created |-> Today]>>
                    ELSE <<>>]
    /\ lastOp = NoOp
    /\ updated = 0
    /\ fills = {}
    /\ InitParse
    /\ InitClv
    /\ InitCog
    /\ now \in SchedStarts
    /\ sched = [pc |-> "check", guild |-> 0, checks |-> 0, failed |-> "none", writes |-> 0]
    /\ closed = FALSE
    /\ passes = 0

SchedAnswers == [1..Len(SchedSports) -> FeedReplies]

NextSched ==
    /\ \/ SchedCheck
       \/ \E answers \in SchedAnswers : SchedGuild(answers)
       \/ \E ok \in BOOLEAN : SchedSend(ok)
       \/ \E lag \in 0..MaxLag : SchedSleep(lag)
       \/ Close
    /\ UNCHANGED <<parseVars, clvVars, cogVars, autoVars>>

SpecSched == InitSched /\ [][NextSched]_vars

\* the disambiguation queue, over guilds that have set their channel
NextQueue ==
    /\ \/ \E g \in Guilds, ch \in ChannelIds, lines \in SeqsUpTo(BetLines, MaxMsgLines) :
            PostMessage(g, ch, lines)
       \/ \E g \in Guilds, s \in FeedSports, a \in FeedAnswers : FetchAndStore(g, s, a)
       \/ \E g \in Guilds, id \in 1..MaxBets : Enqueue(g, id)
       \/ \E id \in 1..MaxTickets, k \in 1..MaxClosings : ResolveTicket(id, k)
    /\ UNCHANGED <<parseVars, schedVars, clvVars, cogVars, autoVars>>

SpecQueue == InitReady /\ [][NextQueue]_vars

\* calls of calc_clv_for_bet and of american_to_prob, and !clv, over tables that
\* guild 1 has after a recap message of two lines and !setclv -5.5 for each bet
CalcMessages == {<<LineSpreadWin, LineNameWin>>, <<LineMoneyWin, LineNameWin>>,
                 <<LineSpreadWin, LineDogLoss>>}
InitCalc ==
    /\ \E lines \in CalcMessages :
         /\ bets = {[b EXCEPT !.closing_line = Some(ParseFloat(<<"-","5",".","5">>))] :
                      b \in LogLines(lines, Today, 1, {}, 1)[1]}
         /\ history = [g \in Guilds |->
                         IF g = 1 THEN <<[lines |-> lines, created |-> Today]>> ELSE <<>>]
    /\ nextBetId = 3
    /\ closings = <<>>
    /\ settings = [g \in Guilds |-> Some([channel_id |-> Some(1), override_date |-> None])]
    /\ clv_fixes = {}
    /\ nextFixId = 1
    /\ lastOp = NoOp
    /\ updated = 0
    /\ fills = {}
    /\ InitParse
    /\ InitSchedIdle
    /\ InitClv
    /\ InitCog

NextCalc ==
    /\ \/ /\ \/ calcIn = <<>> /\ \E b \in CalcArgs : ChooseBet(b)
             \/ CalcClv
             \/ calcIn = <<>> /\ \E o \in (0 - MaxOdds)..MaxOdds : AmericanToProb(o)
             \/ Return
          /\ UNCHANGED dbVars
       \/ \E g \in Guilds : ClvReport(g)
    /\ UNCHANGED <<parseVars, schedVars, cogVars, autoVars>>

SpecCalc == InitCalc /\ [][NextCalc]_vars

\* recap messages, !setclv and !clv
ClvLines == {LineSpreadWin, LineDogLoss, LineTotalPush, LineMoneyWin, LineNameWin}
ClvSetValues == SetClvValues \cup {<<"E","V","E","N">>}
NextClv ==
    /\ \/ /\ \/ \E g \in Guilds, ch \in ChannelIds, lines \in SeqsUpTo(ClvLines, MaxMsgLines) :
                  PostMessage(g, ch, lines)
             \/ \E g \in Guilds, id \in 1..MaxBets, text \in ClvSetValues : SetClv(g, id, text)
          /\ report' = NoReport
          /\ UNCHANGED <<calcIn, calcOut, prob>>
       \/ \E g \in Guilds : ClvReport(g)
    /\ UNCHANGED <<parseVars, schedVars, cogVars, autoVars>>

SpecClv == InitReady /\ [][NextClv]_vars

\* the life of a bet record: recap messages, !setdate, !backfill, !delete, !setclv
\* and run_updateclv_for_guild, over guilds that have set their channel; guild 1
\* has imported one closing
SetDates == {OtherDay}
InitLog ==
    /\ bets = {}
    /\ nextBetId = 1
    /\ closings = ImportRows(<<ClvKeyedRow>>, 1, <<>>)
    /\ settings = [g \in Guilds |-> Some([channel_id |-> Some(1), override_date |-> None])]
    /\ clv_fixes = {}
    /\ nextFixId = 1
    /\ history = [g \in Guilds |-> <<>>]
    /\ lastOp = NoOp
    /\ updated = 0
    /\ fills = {}
    /\ InitParse
    /\ InitSchedIdle
    /\ InitClv
    /\ InitCog

\* a line that wins, a line that is logged as a loss, and chat
LogMessageLines == {LineSpreadWin, LineSportOnly, LineNoOutcome}
NextLog ==
    /\ \/ \E g \in Guilds, ch \in ChannelIds, lines \in SeqsUpTo(LogMessageLines, MaxMsgLines) :
            PostMessage(g, ch, lines)
       \/ \E g \in Guilds, d \in SetDates : SetDate(g, d)
       \/ \E g \in Guilds : Backfill(g)
       \/ \E g \in Guilds, d \in {Today} \cup SetDates : Delete(g, d)
       \/ \E g \in Guilds, id \in 1..MaxBets, text \in SetClvValues : SetClv(g, id, text)
       \/ \E g \in Guilds : UpdateClv(g)
    /\ UNCHANGED <<parseVars, schedVars, clvVars, cogVars, autoVars>>

SpecLog == InitLog /\ [][NextLog]_vars

\* the recap channel: messages, edits, /setrecap and /reimport, and the steps of
\* their tasks
NextRecap ==
    /\ \/ \E t \in TaskIds, c \in RecapContents : CogPost(t, c)
       \/ \E t \in TaskIds, id \in 1..MaxMessages, c \in RecapContents : CogEdit(t, id, c)
       \/ \E t \in TaskIds : SetRecap(t)
       \/ \E t \in TaskIds : Reimport(t)
       \/ \E t \in TaskIds, fetched \in BOOLEAN : ImportHistory(t, fetched)
       \/ \E t \in TaskIds : TxSelect(t)
       \/ \E t \in TaskIds : TxWrite(t)
       \/ \E t \in TaskIds : TxProgress(t)
       \/ \E t \in TaskIds : TxCommit(t)
       \/ \E t \in TaskIds : TxDeadlock(t)
    /\ UNCHANGED <<dbVars, parseVars, schedVars, clvVars, autoVars>>

SpecRecap == Init /\ [][NextRecap]_vars

\* auto_post_task and /automation, when the recap of today of the recap guild is
\* stored
AutoChannels == {1, 2}
InitAuto ==
    /\ InitDb
    /\ InitParse
    /\ InitSchedIdle
    /\ InitClv
    /\ channel = <<RecapWin>>
    /\ cog_settings = [g \in Guilds |->
          IF g = RecapGuild
          THEN Some([recap_channel_id |-> Some(RecapChannel), automation_enabled |-> FALSE,
                     automation_channel_id |-> None])
          ELSE None]
    /\ daily_recaps = {RecapRow(1, 1, RecapParsed[RecapWin])}
    /\ recap_bets = <<BetRows(<<>>, RecapParsed[RecapWin])>>
    /\ nextRecapId = 2
    /\ import_progress = Some(1)
    /\ tasks = [t \in TaskIds |-> IdleTask]
    /\ auto = AutoIdle
    /\ posts = [g \in Guilds |-> 0]
    /\ ticks = 0

NextAuto ==
    /\ \/ \E g \in Guilds, action \in {"on", "off"}, ch \in AutoChannels :
            Automation(g, action, ch)
       \/ AutoSelect
       \/ AutoGuild
       \/ \E ok \in BOOLEAN : AutoSend(ok)
    /\ UNCHANGED <<dbVars, parseVars, schedVars, clvVars>>

SpecAuto == InitAuto /\ [][NextAuto]_vars

(* ---------------------------------------------------------------------- *)
(* Properties                                                             *)
(* ---------------------------------------------------------------------- *)
\* the bet that a fill updated, and the snapshot it took its values from
FilledBet(f) == CHOOSE b \in bets : b.id = f.bet
FillSnapshot(f) == closings[f.snap]
\* the key under which the path of a fill looks the bet up
FillKey(f) == IF f.path = "bot" THEN BotKey(FilledBet(f)) ELSE ClvKey(FilledBet(f))
ClosingOf(b) == <<b.closing_line, b.closing_odds>>

\* C1: a failure while the scheduler processes a guild (the feed answers with an
\* HTTP error, a send fails) does not end the scheduler task: the other guilds of
\* the pass and the later triggers are still served.
C1_FailureDoesNotStopScheduler ==
    sched.failed # "none" => sched.pc # "crashed"

\* C2: reconciliation writes the closing values of a bet at most once: a bet that
\* has closing_line or closing_odds set when a reconciliation updates it has the
\* same values afterwards.
C2_FilledBetNotRewritten ==
    \A f \in fills : f.before # <<None, None>> => ClosingOf(FilledBet(f)) = f.before

\* C3: a run of run_updateclv_for_guild that directly follows a run for the same
\* guild changes no bet and reports no updated bet.
C3_SecondRunIsNoOp ==
    lastOp.op = "updateclv_again" => (~lastOp.changed /\ updated = 0)

\* C4: a bet is filled with the values of the snapshot of its guild and event key
\* that has the latest fetched_at, in the path of bot.py and in the path of clv.py.
C4_LatestSnapshotFills ==
    \A f \in fills :
        LET rows == KeyRows(closings, FillSnapshot(f).guild_id, FillSnapshot(f).event_key)
            latest == CHOOSE k \in rows :
                          \A j \in rows : closings[j].fetched_at <= closings[k].fetched_at
        IN  /\ FillSnapshot(f).closing_line = closings[latest].closing_line
            /\ FillSnapshot(f).closing_odds = closings[latest].closing_odds

\* C5: no operation (feed refresh, CSV import, reconciliation, !setclv, a recap
\* message) updates or deletes a row of closings: every row stays as inserted and
\* the table only grows.
C5_SnapshotsOnlyGrow ==
    [][/\ Len(closings') >= Len(closings)
       /\ \A k \in 1..Len(closings) : closings'[k] = closings[k]]_vars

\* two snapshots of one guild and event key with different values are kept side by
\* side, after a reconciliation that filled a bet
C5_TwoSnapshotsKept ==
    /\ lastOp.op = "updateclv"
    /\ fills # {}
    /\ \E i, j \in 1..Len(closings) :
         /\ i < j
         /\ closings[i].guild_id = closings[j].guild_id
         /\ closings[i].event_key = closings[j].event_key
         /\ closings[i].closing_odds # closings[j].closing_odds

\* C6: a snapshot whose event key shares no participant token with the key of a bet
\* is never used to fill the bet, and a reconciliation pass writes no snapshot to
\* the cache under the key of a bet.
C6_NoFillWithoutOverlap ==
    /\ \A f \in fills : Overlap(FillSnapshot(f).event_key, FillKey(f)) >= 1
    /\ lastOp.op \in {"updateclv", "updateclv_again"} => lastOp.stored = 0

\* a reconciliation filled a bet of the guild and left another bet of the guild
\* unfilled although the guild has a snapshot, one that shares no token with it
C6_ZeroOverlapPassedOver ==
    /\ lastOp.op = "updateclv"
    /\ fills # {}
    /\ \E b \in bets, k \in 1..Len(closings) :
         /\ b.guild_id = lastOp.guild
         /\ closings[k].guild_id = b.guild_id
         /\ ClosingOf(b) = <<None, None>>
         /\ Overlap(closings[k].event_key, BotKey(b)) = 0
         /\ Overlap(closings[k].event_key, ClvKey(b)) = 0

\* C7: when the scheduler fails part-way through a guild, none of the writes of
\* that guild in this pass (snapshot inserts, bet updates) is committed.
C7_FailedScopeLeavesNoWrites ==
    (sched.pc = "crashed" /\ sched.failed = "fetch") => sched.writes = 0

\* C8: once the trigger minute (Tuesday 03:00 UTC) is over, with the client open
\* and the task alive, the scheduler has run exactly one pass for it.
C8_OnePassPerTrigger ==
    (now >= TriggerTime + 60 /\ ~closed /\ sched.pc \notin {"crashed", "exited"})
        => passes = 1

\* C9: clv_fixes holds at most one unresolved ticket per bet_id.
C9_OneUnresolvedTicketPerBet ==
    \A t1, t2 \in clv_fixes :
        (t1.bet_id = t2.bet_id /\ ~t1.resolved /\ ~t2.resolved) => t1 = t2

\* candidates were enqueued for a bet that has an unresolved ticket, and the
\* tickets stayed as they were
C9_EnqueueOnPendingTicket ==
    /\ lastOp.op = "enqueue"
    /\ ~lastOp.changed
    /\ \E t \in clv_fixes : ~t.resolved

\* an outcome symbol or keyword in a line: an emoji with a sentiment, one of the
\* outcome words, or the letter W or L standing alone
OutcomeWords == {<<"w","i","n">>, <<"c","a","s","h">>, <<"h","i","t">>, <<"l","o","s","s">>, <<"m","i","s","s">>, <<"l","o","s","e">>,
                 <<"p","u","s","h">>, <<"v","o","i","d">>, <<"c","a","n","c","e","l">>}
HasOutcomeSignal(line) ==
    \/ \E i \in 1..Len(line) : IsEmoji(line[i]) /\ classify_emoji(line[i]) # "none"
    \/ \E w \in OutcomeWords : Contains(LowerStr(line), w)
    \/ \E i \in 1..Len(line) :
         /\ Lower(line[i]) \in {"w", "l"}
         /\ (i = 1 \/ IsSpace(line[i - 1]))
         /\ (i = Len(line) \/ IsSpace(line[i + 1]))

\* C10: parse_bet returns none for a line that is empty or has no outcome symbol
\* or keyword, whatever stake, odds, sport or line tokens it has.
C10_NoSignalNoBet ==
    (parsed # <<>> /\ ~HasOutcomeSignal(LineOf(words))) => IsNone(parsed[1])

\* the stake that parse_bet reads in a line of the recap messages
StakeOf == [l \in MessageLines |-> ParseUnits(l)]

\* C11: every stored bet has status win, loss or push, and its result is +units
\* for a win, -units for a loss and 0 for a push, units being the stake parsed
\* from the line of the bet.
C11_ResultFollowsStatus ==
    \A b \in bets :
        /\ b.status \in {"win", "loss", "push"}
        /\ b.units = StakeOf[b.bet_text]
        /\ b.status = "win" => b.result = b.units
        /\ b.status = "loss" => b.result = 0 - b.units
        /\ b.status = "push" => b.result = 0

\* a loss of 2 units and a push are stored
C11_LossAndPushStored ==
    /\ \E b \in bets : b.status = "loss" /\ b.units = 20 /\ b.result = 0 - 20
    /\ \E b \in bets : b.status = "push" /\ b.result = 0

\* the sides that a bet type may carry, and whether it carries a line
SideFollowsType(t) ==
    /\ t.bet_type = "spread" => t.posted_side \in {Some("fav"), Some("dog")}
    /\ t.bet_type \in {"total", "prop"} => t.posted_side \in {Some("over"), Some("under")}
    /\ t.bet_type \in {"moneyline", "unknown"} =>
         IsNone(t.posted_line) /\ IsNone(t.posted_side)

\* C12: in every result of detect_bet_type_and_line and of parse_bet, a spread has
\* side fav or dog, a total or prop has side over or under, and a moneyline or
\* unknown bet has neither a posted line nor a posted side.
C12_SideFollowsType ==
    /\ detected # <<>> => SideFollowsType(detected[1])
    /\ (parsed # <<>> /\ ~IsNone(parsed[1])) => SideFollowsType(Val(parsed[1]))

\* a total on the under was detected in a line that parse_bet took for a bet
C12_UnderTotalParsed ==
    /\ detected # <<>>
    /\ detected[1].bet_type = "total"
    /\ detected[1].posted_side = Some("under")
    /\ parsed # <<>> /\ ~IsNone(parsed[1])
    /\ Val(parsed[1]).bet_type = "total"

\* the words of the vocabulary that name a participant
ParticipantNames == {<<"L","a","k","e","r","s">>, <<"C","e","l","t","i","c","s">>}

\* the line with the words at i and j exchanged
Exchanged(ws, i, j) == LineOf([ws EXCEPT ![i] = ws[j], ![j] = ws[i]])

\* C13: build_event_key depends only on sport, date, bet_type and the set of
\* participant names in the text: a line and the line with two of its participant
\* names exchanged get the same key for the same sport, date and bet type.
C13_KeyIgnoresNameOrder ==
    detected # <<>> =>
        \A i, j \in 1..Len(words) :
            (words[i] \in ParticipantNames /\ words[j] \in ParticipantNames) =>
                build_event_key(Exchanged(words, i, j), extract_sport(LineOf(words)),
                                Today, detected[1].bet_type)
                = build_event_key(LineOf(words), extract_sport(LineOf(words)),
                                  Today, detected[1].bet_type)

\* a stake marker in a line: a digit with the letter u right after it, in a
\* number that has no sign before it
HasStakeMarker(line) ==
    \E i \in 1..(Len(line) - 1) :
        /\ IsDigit(line[i])
        /\ Lower(line[i + 1]) = "u"
        /\ LET start == Min({j \in 1..i : \A k \in j..i : IsDigit(line[k]) \/ line[k] = "."})
           IN  start = 1 \/ line[start - 1] \notin {"+", "-"}

\* C20: the stake comes only from an unsigned number with the unit marker u right
\* after it, never from the digits of a signed number, so a parsed line with no
\* such marker has the stake 1.0.
C20_StakeNeedsMarker ==
    (parsed # <<>> /\ ~IsNone(parsed[1]) /\ ~HasStakeMarker(LineOf(words)))
        => Val(parsed[1]).units = 10

\* an optional fraction is the value n / d
IsValue(out, n, d) == ~IsNone(out) /\ Val(out)[1] * d = n * Val(out)[2]

\* C14: for a spread with both lines present and side fav or dog, calc_clv_for_bet
\* returns |closing_line| - |posted_line| whichever the side: -3.5 to -4.5 for a
\* favourite and +7.0 to +8.0 for a dog both give +1.0.
C14_SpreadClvIsAbsMove ==
    (calcOut # <<>> /\ calcIn[1].bet_type = "spread"
     /\ ~IsNone(calcIn[1].posted_line) /\ ~IsNone(calcIn[1].closing_line)
     /\ calcIn[1].posted_side \in {Some("fav"), Some("dog")}) =>
        LET p == Val(calcIn[1].posted_line)
            c == Val(calcIn[1].closing_line)
        IN  /\ IsValue(calcOut[1], Abs(c) - Abs(p), 10)
            /\ (p = 0 - 35 /\ c = 0 - 45) => calcOut[1] = Some(<<1, 1>>)
            /\ (p = 70 /\ c = 80) => calcOut[1] = Some(<<1, 1>>)

\* the call returned +1.0 for a favourite whose line went from -3.5 to -4.5
C14_FavouriteGainsOne ==
    /\ calcOut = <<Some(<<1, 1>>)>>
    /\ calcIn[1].bet_type = "spread"
    /\ calcIn[1].posted_side = Some("fav")
    /\ calcIn[1].posted_line = Some(0 - 35)
    /\ calcIn[1].closing_line = Some(0 - 45)

\* C15: for a total or prop with both lines present, calc_clv_for_bet returns
\* closing_line - posted_line for the over and the negation of it for the under,
\* so the values of the two sides for the same lines add up to zero.
C15_UnderNegatesOver ==
    (calcOut # <<>> /\ calcIn[1].bet_type \in {"total", "prop"}
     /\ ~IsNone(calcIn[1].posted_line) /\ ~IsNone(calcIn[1].closing_line)
     /\ calcIn[1].posted_side \in {Some("over"), Some("under")}) =>
        LET b == calcIn[1]
            diff == Val(b.closing_line) - Val(b.posted_line)
            other == [b EXCEPT !.posted_side =
                         IF b.posted_side = Some("over") THEN Some("under") ELSE Some("over")]
        IN  /\ b.posted_side = Some("over") => IsValue(calcOut[1], diff, 10)
            /\ b.posted_side = Some("under") => IsValue(calcOut[1], 0 - diff, 10)
            /\ ~IsNone(calc_clv_for_bet(other))
            /\ FracAdd(Val(calcOut[1]), Val(calc_clv_for_bet(other))) = <<0, 1>>

\* the call returned -1.0 for an under whose total went from 7.0 to 8.0
C15_UnderLosesOne ==
    /\ calcOut = <<Some(<<0 - 1, 1>>)>>
    /\ calcIn[1].bet_type = "total"
    /\ calcIn[1].posted_side = Some("under")
    /\ calcIn[1].posted_line = Some(70)
    /\ calcIn[1].closing_line = Some(80)

\* the odds texts of the calls that are integers, with the integer
OddsNumber == {<<<<"-","1","5","0">>, 0 - 150>>, <<<<"-","1","3","0">>, 0 - 130>>, <<<<"+","1","2","0">>, 120>>}
\* p(o) of an integer o that is not 0, as <<numerator, denominator>>
ImpliedProb(o) == IF o > 0 THEN <<100, o + 100>> ELSE <<0 - o, (0 - o) + 100>>

\* C16: for a moneyline whose two odds are integers, calc_clv_for_bet returns
\* p(closing_odds) - p(posted_odds) with p(o) = 100/(o+100) for o > 0 and
\* -o/(-o+100) for o < 0, which is negative for posted -150 and closing -130; with
\* one of the odds missing or no number it returns none.
C16_MoneylineEdge ==
    (calcOut # <<>> /\ calcIn[1].bet_type = "moneyline") =>
        LET b == calcIn[1]
            numeric(o) == ~IsNone(o) /\ \E t \in OddsNumber : t[1] = Val(o)
            number(o) == (CHOOSE t \in OddsNumber : t[1] = Val(o))[2]
        IN  IF numeric(b.posted_odds) /\ numeric(b.closing_odds)
            THEN LET pp == ImpliedProb(number(b.posted_odds))
                     pc == ImpliedProb(number(b.closing_odds))
                 IN  /\ IsValue(calcOut[1], pc[1] * pp[2] - pp[1] * pc[2], pc[2] * pp[2])
                     /\ (number(b.posted_odds) = 0 - 150 /\ number(b.closing_odds) = 0 - 130)
                            => Val(calcOut[1])[1] < 0
            ELSE IsNone(calcOut[1])

\* the call returned -4/115 for posted odds -150 and closing odds -130
C16_ShorterPriceLosesEdge ==
    /\ calcOut = <<Some(<<0 - 4, 115>>)>>
    /\ calcIn[1].bet_type = "moneyline"
    /\ calcIn[1].posted_odds = Some(<<"-","1","5","0">>)
    /\ calcIn[1].closing_odds = Some(<<"-","1","3","0">>)

LacksClvInput(b) ==
    \/ b.bet_type \in {"spread", "total", "prop"}
         /\ (IsNone(b.posted_line) \/ IsNone(b.closing_line))
    \/ b.bet_type = "spread" /\ b.posted_side \notin {Some("fav"), Some("dog")}
    \/ b.bet_type \in {"total", "prop"} /\ b.posted_side \notin {Some("over"), Some("under")}
    \/ b.bet_type = "unknown"

\* the rows of a report for which calc_clv_for_bet returns a value
Valued(rows) == {b \in rows : ~IsNone(calc_clv_for_bet(ClvArgs(b)))}

\* C17: calc_clv_for_bet returns none when a field that the bet type needs is
\* missing, when posted_side is outside the domain of the type and for the type
\* unknown; and !clv leaves every bet for which it returns none out of the sums and
\* out of the counts of its averages.
C17_NoneIsLeftOut ==
    /\ (calcOut # <<>> /\ LacksClvInput(calcIn[1])) => IsNone(calcOut[1])
    /\ \A b \in report.rows : LacksClvInput(ClvArgs(b)) => b \notin Valued(report.rows)
    /\ report.kind = "no_valid" => Valued(report.rows) = {}
    /\ report.kind = "summary" =>
         /\ DOMAIN report.totals = {b.bet_type : b \in Valued(report.rows)}
         /\ \A bt \in DOMAIN report.totals :
              LET of == {b \in Valued(report.rows) : b.bet_type = bt}
              IN  /\ report.totals[bt].count = Cardinality(of)
                  /\ report.totals[bt].sum = SumClv(of)
         /\ report.overall.count = Cardinality(Valued(report.rows))
         /\ report.overall.sum = SumClv(Valued(report.rows))

\* !clv answered with a summary that counts fewer bets than it selected
C17_SummarySkipsBet ==
    /\ report.kind = "summary"
    /\ \E b \in report.rows : LacksClvInput(ClvArgs(b))
    /\ report.overall.count < Cardinality(report.rows)

\* an event key of the form sport|date|bet_type|teams_token whose participant
\* tokens are lower case, no stop words, sorted and without duplicates
IsCanonicalKey(key) ==
    LET parts == Split(key)
    IN  /\ Len(parts) >= 4
        /\ \A i \in 4..Len(parts) :
              /\ parts[i] = LowerStr(parts[i])
              /\ parts[i] \notin GENERIC_WORDS
              /\ \A j \in (i + 1)..Len(parts) : StrLess(parts[i], parts[j])

\* C19: the event keys that fetch_and_store_closings writes to closings and the
\* keys that try_update_bet_with_closing looks up have the canonical form, so that
\* the key of a bet in src/clv.py is the key that src/bot.py builds for it.
C19_KeysAreCanonical ==
    /\ \A k \in 1..Len(closings) :
          closings[k].source # "consensus" => IsCanonicalKey(closings[k].event_key)
    /\ lastOp.op \in {"updateclv", "updateclv_again"} =>
          \A b \in bets : b.guild_id = lastOp.guild =>
              IsCanonicalKey(ClvKey(b)) /\ ClvKey(b) = BotKey(b)

\* the words of the vocabulary with a sign: American odds of 3 or 4 digits, and
\* the other signed numbers
OddsWords == {<<"-","1","1","0">>}
LineWords == {<<"-","3",".","5">>, <<"+","7">>, <<"-","1","0",".","5">>, <<"-","1","5","0","u">>}
\* an over/under word in a line
OverUnder == {<<"o","v","e","r">>, <<"u","n","d","e","r">>}

\* C21: a line with no over/under pattern whose only signed number is an American
\* odds token of 3 or 4 digits is a moneyline with no posted line and no posted
\* side, with or without the keyword ML.
C21_OddsOnlyIsMoneyline ==
    (/\ detected # <<>>
     /\ \E i \in 1..Len(words) : words[i] \in OddsWords
     /\ \A i \in 1..Len(words) : words[i] \notin LineWords \cup OverUnder) =>
        detected[1] = [bet_type |-> "moneyline", posted_line |-> None, posted_side |-> None]

\* C22: in a line with a spread line and separate vig odds, posted_line is the line
\* token and the posted odds are the odds token: the odds are never the line token
\* or the beginning of it.
C22_OddsApartFromLine ==
    (/\ parsed # <<>> /\ ~IsNone(parsed[1])
     /\ \E i, j \in 1..Len(words) :
           /\ words[i] \in {<<"-","3",".","5">>, <<"+","7">>, <<"-","1","0",".","5">>} /\ words[j] \in OddsWords
           /\ \A k \in 1..Len(words) : k \notin {i, j} =>
                 words[k] \notin LineWords \cup OddsWords \cup OverUnder) =>
        LET i == CHOOSE i \in 1..Len(words) : words[i] \in {<<"-","3",".","5">>, <<"+","7">>, <<"-","1","0",".","5">>}
            j == CHOOSE j \in 1..Len(words) : words[j] \in OddsWords
        IN  /\ Val(parsed[1]).posted_line = Some(ParseFloat(words[i]))
            /\ Val(parsed[1]).odds = Some(words[j])

\* the places of a line where an over/under word has a number after it, and the
\* places of its signed numbers
TotalPlaces(ws) ==
    {i \in 1..Len(ws) :
        /\ ws[i] \in OverUnder
        /\ \E j \in (i + 1)..Len(ws) :
              /\ ws[j] # <<>> /\ IsDigit(ws[j][1])
              /\ \A k \in (i + 1)..(j - 1) : ws[k] = <<>>}
SignedPlaces(ws) == {i \in 1..Len(ws) : ws[i] \in LineWords \cup OddsWords}

\* C23: detect_bet_type_and_line applies its rules in this order: an over/under
\* pattern with a number makes a total, or a prop when a statistical keyword is in
\* the line, whatever signed number the line has; otherwise a signed number makes a
\* spread, fav for - and dog for +; otherwise the keyword ML makes a moneyline;
\* otherwise the type is unknown.
C23_RulesInPrecedence ==
    detected # <<>> =>
        LET t == detected[1]
            totals == TotalPlaces(words)
            signed == SignedPlaces(words)
        IN  IF totals # {}
            THEN /\ t.bet_type = IF \E i \in 1..Len(words) : words[i] = <<"p","t","s">>
                                 THEN "prop" ELSE "total"
                 /\ t.posted_side = Some(IF words[Min(totals)] = <<"o","v","e","r">> THEN "over" ELSE "under")
            ELSE IF signed # {}
            THEN /\ t.bet_type = "spread"
                 /\ t.posted_side = Some(IF words[Min(signed)][1] = "-" THEN "fav" ELSE "dog")
            ELSE IF \E i \in 1..Len(words) : words[i] = <<"M","L">>
            THEN t.bet_type = "moneyline"
            ELSE t.bet_type = "unknown"

\* C24: a step that keeps a bet record changes none of its fields but closing_line
\* and closing_odds, and a run of run_updateclv_for_guild changes nothing at all
\* of a bet of another guild or of a bet it finds no closing for
SameButClosing(b, c) ==
    [c EXCEPT !.closing_line = b.closing_line, !.closing_odds = b.closing_odds] = b
C24_OnlyClosingFieldsChange ==
    [][\A b \in bets : \A c \in bets' :
          c.id = b.id =>
            /\ SameButClosing(b, c)
            /\ ( /\ lastOp'.op \in {"updateclv", "updateclv_again"}
                 /\ \/ b.guild_id # lastOp'.guild
                    \/ ClvFillRows(closings, b) = {}
                 => c = b )]_vars
\* a run has filled one bet of the guild and found nothing for another, whose
\* closing fields are still null
C24_PassLeavesUnmatched ==
    /\ lastOp.op = "updateclv"
    /\ fills # {}
    /\ \E b \in bets : /\ b.guild_id = lastOp.guild
                       /\ \A f \in fills : f.bet # b.id
                       /\ IsNone(b.closing_line) /\ IsNone(b.closing_odds)

\* C25: the date set by !setdate stays set until a step records a bet of the guild
\* with that date: the override is used by the next recap that is logged, and only
\* by it
C25_OverrideServesNextRecap ==
    [][\A g \in Guilds :
          ~IsNone(get_override_date(settings, g)) /\ IsNone(get_override_date(settings', g))
          => \E b \in bets' \ bets : /\ b.guild_id = g
                                     /\ b.date = Val(get_override_date(settings, g))]_vars

\* C29: a run of !backfill that directly follows a run of !backfill in the same
\* guild logs 0 plays and leaves table bets as it is
C29_SecondBackfillLogsNothing ==
    [][ /\ lastOp.op = "backfill"
        /\ lastOp'.op = "backfill"
        /\ lastOp'.guild = lastOp.guild
        => updated' = 0 /\ bets' = bets ]_vars

\* C26: import_progress.last_message_id never moves to an older message: once it
\* is set, every step leaves it set and at the same or at a later message
C26_CheckpointNeverMovesBack ==
    [][~IsNone(import_progress)
       => ~IsNone(import_progress') /\ Val(import_progress') >= Val(import_progress)]_vars

\* C27: every message has at most one row of daily_recaps, and the row and its
\* bets are those of one text of the message, as parse_message_content reads it
OneVersion(r) ==
    \E c \in RecapContents :
       /\ validate_parsed(RecapParsed[c])
       /\ r = RecapRow(r.id, r.message_id, RecapParsed[c])
       /\ recap_bets[r.id] = RecapParsed[c].bets
C27_OneRowOfOneVersion ==
    /\ \A r, s \in daily_recaps : r.message_id = s.message_id => r = s
    /\ DOMAIN recap_bets = {r.id : r \in daily_recaps}
    /\ \A r \in daily_recaps : OneVersion(r)
\* a message that was stored with one text is stored with its later text, and a
\* task has another upsert of the message under way
C27_EditedWhileImported ==
    \E r \in daily_recaps :
       /\ recap_bets[r.id] = RecapParsed[RecapFull].bets
       /\ r.id = 1
       /\ \E t \in TaskIds : /\ tasks[t].kind = "import"
                             /\ tasks[t].pc \in {"write", "progress", "commit"}
                             /\ \E k \in 1..Len(tasks[t].buffer) :
                                   /\ tasks[t].buffer[k].id = r.message_id
                                   /\ tasks[t].buffer[k].content = RecapWin

\* C28: in every row of daily_recaps each bet has one of the four results, the
\* counts and total_units of the row are those of its bets, with a hook counted
\* as a hook and as a loss, and wins and losses are the W-L of the summary line of
\* a text with these bets
Results == {"win", "loss", "hook", "push"}
CountOf(bs, rs) == Cardinality({k \in 1..Len(bs) : bs[k].result \in {Some(r) : r \in rs}})
RECURSIVE UnitsOf(_, _)
UnitsOf(bs, rs) ==
    IF bs = <<>> THEN 0
    ELSE (IF Head(bs).result \in {Some(r) : r \in rs} THEN Head(bs).units ELSE 0)
         + UnitsOf(Tail(bs), rs)
C28_RowAgreesWithBets ==
    \A r \in daily_recaps :
       LET bs == recap_bets[r.id]
       IN  /\ \A k \in 1..Len(bs) : bs[k].result \in {Some(x) : x \in Results}
           /\ r.wins = CountOf(bs, {"win"})
           /\ r.losses = CountOf(bs, {"loss", "hook"})
           /\ r.pushes = CountOf(bs, {"push"})
           /\ r.hooks = CountOf(bs, {"hook"})
           /\ r.total_units = UnitsOf(bs, {"win"}) - UnitsOf(bs, {"loss", "hook"})
           /\ \E c \in RecapContents :
                 /\ RecapParsed[c].bets = bs
                 /\ RecapParsed[c].recap_date = Some(r.recap_date)
                 /\ RecapParsed[c].summary_wins = Some(r.wins)
                 /\ RecapParsed[c].summary_losses = Some(r.losses)
\* a stored recap with a hook, a push and a loss of 2u
C28_HookPushLossStored ==
    \E r \in daily_recaps :
       /\ r.hooks = 1 /\ r.pushes = 1 /\ r.losses = 2 /\ r.wins = 0
       /\ r.total_units = -30
       /\ Len(recap_bets[r.id]) = 3

\* C30: auto_post_task has posted the recap of today at most once in every guild
C30_PostedAtMostOnce == \A g \in Guilds : posts[g] <= 1
====
